---- MODULE Spec2Model ----
(***************************************************************************)
(* Model of the on-call log analysis service: the log analysis pipeline    *)
(* of app/services/analysis_service.py, the model response normalizer of   *)
(* app/services/llm_service.py and the POST /analysis/ route.              *)
(*                                                                         *)
(* Python str values are sequences of one-character strings, so that       *)
(* strip(), startswith(), slicing and json.loads act on characters.        *)
(* Python objects are tagged records:                                      *)
(*   None  [t |-> "null"]            bool  [t |-> "bool", b |-> ...]       *)
(*   int   [t |-> "num", n |-> ...]  str   [t |-> "str", s |-> chars]      *)
(*   list  [t |-> "list", items |-> sequence]                              *)
(*   dict  [t |-> "dict", m |-> function from key (chars) to object]       *)
(***************************************************************************)
EXTENDS Integers, Sequences, FiniteSets, TLC

VARIABLES
    settings,      \* Settings read by get_settings()
    pc,            \* position of the request being served
    request,       \* LogAnalysisRequest of the request being served
    service,       \* AnalysisService instance: the clients its constructor built
    analysis_id,   \* identifier minted at the start of analyze_logs
    next_uuid,     \* identifiers minted so far
    logs,          \* entries returned by the fetch step
    statistics,    \* result of _calculate_statistics
    response,      \* text returned by the model provider
    llm_analysis,  \* result of LLMService.analyze_logs / _parse_llm_response
    llm_findings,  \* argument of _convert_findings
    findings,      \* result of _convert_findings
    document_path, \* result of DocumentService.generate_document
    raised,        \* exception leaving the operation, or NoException
    result,        \* outcome of analyze_logs (of the operation applied, in the other specifications)
    http,          \* the answer of the route to the request
    served,        \* requests answered so far
    calls,         \* external calls made while serving the request
    log_source,    \* entries the log source held when the request being served queried it
    reports        \* report targets handed to the renderer, by every run so far

vars == <<settings, pc, request, service, analysis_id, next_uuid, logs, statistics,
          response, llm_analysis, llm_findings, findings, document_path, raised,
          result, http, served, calls, log_source, reports>>

-----------------------------------------------------------------------------
(* Bounds of the model *)

\* longest text enumerated exhaustively over ShortAlphabet
MaxLen == 3
\* characters a long non-JSON response has beyond DescriptionLimit
MaxOver == 1

-----------------------------------------------------------------------------
(* Program string literals *)

\* the character U+0060 of a code fence, which a string of this language cannot hold
Backtick == "^"

K_summary == <<"s","u","m","m","a","r","y">>
K_findings == <<"f","i","n","d","i","n","g","s">>
K_recommendations == <<"r","e","c","o","m","m","e","n","d","a","t","i","o","n","s">>
K_most_common_errors == <<"m","o","s","t","_","c","o","m","m","o","n","_","e","r","r","o","r","s">>
K_severity == <<"s","e","v","e","r","i","t","y">>
K_title == <<"t","i","t","l","e">>
K_description == <<"d","e","s","c","r","i","p","t","i","o","n">>
K_affected_logs_count == <<"a","f","f","e","c","t","e","d","_","l","o","g","s","_","c","o","u","n","t">>
K_suggested_fix == <<"s","u","g","g","e","s","t","e","d","_","f","i","x">>
K_code_example == <<"c","o","d","e","_","e","x","a","m","p","l","e">>
T_info == <<"i","n","f","o">>
T_critical == <<"c","r","i","t","i","c","a","l">>
T_high == <<"h","i","g","h">>
T_medium == <<"m","e","d","i","u","m">>
T_low == <<"l","o","w">>
T_AnalysisCompleted == <<"A","n","a","l","y","s","i","s"," ","c","o","m","p","l","e","t","e","d">>
T_ParsingFailed == <<"A","n","a","l","y","s","i","s"," ","c","o","m","p","l","e","t","e","d"," ","b","u","t"," ","r","e","s","p","o","n","s","e"," ","p","a","r","s","i","n","g"," ","f","a","i","l","e","d">>
T_AnalysisResult == <<"A","n","a","l","y","s","i","s"," ","R","e","s","u","l","t">>
T_ManualReview == <<"M","a","n","u","a","l"," ","r","e","v","i","e","w"," ","r","e","q","u","i","r","e","d">>
T_ReviewLogs == <<"R","e","v","i","e","w"," ","l","o","g","s"," ","m","a","n","u","a","l","l","y">>
T_UnknownIssue == <<"U","n","k","n","o","w","n"," ","i","s","s","u","e">>
T_NoLogsFound == <<"N","o"," ","l","o","g","s"," ","f","o","u","n","d"," ","i","n"," ","t","h","e"," ","s","p","e","c","i","f","i","e","d"," ","t","i","m","e"," ","r","a","n","g","e",".">>
T_CheckConfig == <<"C","h","e","c","k"," ","y","o","u","r"," ","G","C","P"," ","l","o","g","g","i","n","g"," ","c","o","n","f","i","g","u","r","a","t","i","o","n"," ","a","n","d"," ","f","i","l","t","e","r","s",".">>
FenceJson == <<Backtick,Backtick,Backtick,"j","s","o","n">>
Fence == <<Backtick,Backtick,Backtick>>
L_null == <<"n","u","l","l">>
L_true == <<"t","r","u","e">>
L_false == <<"f","a","l","s","e">>

\* response[:1000]
DescriptionLimit == 1000

-----------------------------------------------------------------------------
(* Python objects *)

PyNone == [t |-> "null"]
PyBool(b) == [t |-> "bool", b |-> b]
PyInt(n) == [t |-> "num", n |-> n]
PyStr(s) == [t |-> "str", s |-> s]
PyList(items) == [t |-> "list", items |-> items]
PyDict(m) == [t |-> "dict", m |-> m]
EmptyMap == [k \in {} |-> PyNone]
EmptyDict == PyDict(EmptyMap)

\* d[k] = v
SetItem(d, k, v) == PyDict([x \in DOMAIN d.m \cup {k} |-> IF x = k THEN v ELSE d.m[x]])
\* d.get(k, default)
DictGet(d, k, default) == IF k \in DOMAIN d.m THEN d.m[k] ELSE default

-----------------------------------------------------------------------------
(* str methods *)

Min(a, b) == IF a < b THEN a ELSE b

\* whitespace removed by str.strip() and skipped by the JSON decoder
Whitespace == {" ", "\n"}

RECURSIVE lstrip(_)
lstrip(s) == IF s # <<>> /\ Head(s) \in Whitespace THEN lstrip(Tail(s)) ELSE s

RECURSIVE rstrip(_)
rstrip(s) ==
    IF s # <<>> /\ s[Len(s)] \in Whitespace THEN rstrip(SubSeq(s, 1, Len(s) - 1)) ELSE s

strip(s) == rstrip(lstrip(s))

startswith(s, prefix) == Len(s) >= Len(prefix) /\ SubSeq(s, 1, Len(prefix)) = prefix

endswith(s, suffix) ==
    Len(s) >= Len(suffix) /\ SubSeq(s, Len(s) - Len(suffix) + 1, Len(s)) = suffix

\* s[n:]
SliceFrom(s, n) == IF n >= Len(s) THEN <<>> ELSE SubSeq(s, n + 1, Len(s))
\* s[:n]
SliceTo(s, n) == SubSeq(s, 1, Min(n, Len(s)))
\* s[:-n]
SliceToLast(s, n) == IF n >= Len(s) THEN <<>> ELSE SubSeq(s, 1, Len(s) - n)

\* sub in s, for str
IsSubstring(sub, s) ==
    \E i \in 0..(Len(s) - Len(sub)) : SubSeq(s, i + 1, i + Len(sub)) = sub

-----------------------------------------------------------------------------
(* json.loads, for the JSON subset of the modelled texts: objects, arrays,  *)
(* strings without escapes, integers, true, false, null, and whitespace.    *)

Digits == {"0", "1", "2", "3", "4", "5", "6", "7", "8", "9"}
DigitValue ==
    [c \in Digits |->
        CASE c = "0" -> 0 [] c = "1" -> 1 [] c = "2" -> 2 [] c = "3" -> 3 [] c = "4" -> 4
          [] c = "5" -> 5 [] c = "6" -> 6 [] c = "7" -> 7 [] c = "8" -> 8 [] c = "9" -> 9]

\* a decoding step: ok, the object decoded, the index after it
Decoded(v, i) == [ok |-> TRUE, v |-> v, i |-> i]
DecodeError == [ok |-> FALSE, v |-> PyNone, i |-> 0]

RECURSIVE SkipWhitespace(_, _)
SkipWhitespace(s, i) ==
    IF i <= Len(s) /\ s[i] \in Whitespace THEN SkipWhitespace(s, i + 1) ELSE i

\* the characters of a string literal whose opening quote is at i - 1
ScanString(s, i, acc) ==
    LET ends == {j \in i..Len(s) : s[j] \in {"\"", "\n"}}
    IN  IF ends = {} THEN DecodeError
        ELSE LET j == CHOOSE e \in ends : \A k \in ends : e <= k
             IN  IF s[j] = "\n" THEN DecodeError
                 ELSE Decoded(PyStr(acc \o SubSeq(s, i, j - 1)), j + 1)

RECURSIVE ScanDigits(_, _, _)
ScanDigits(s, i, n) ==
    IF i <= Len(s) /\ s[i] \in Digits
    THEN ScanDigits(s, i + 1, 10 * n + DigitValue[s[i]])
    ELSE Decoded(PyInt(n), i)

\* an integer literal starting at i: -?(0|[1-9][0-9]*)
ScanNumber(s, i) ==
    LET neg == s[i] = "-"
        j == IF neg THEN i + 1 ELSE i
    IN  IF j > Len(s) \/ s[j] \notin Digits THEN DecodeError
        ELSE LET r == IF s[j] = "0" THEN Decoded(PyInt(0), j + 1)
                      ELSE ScanDigits(s, j, 0)
             IN  IF neg THEN Decoded(PyInt(0 - r.v.n), r.i) ELSE r

RECURSIVE ScanValue(_, _), ScanElement(_, _), ScanArray(_, _, _), ScanMember(_, _),
          ScanObject(_, _, _)

\* scan_once: the JSON value starting exactly at index i
ScanValue(s, i) ==
    IF i > Len(s) THEN DecodeError
    ELSE CASE s[i] = "\"" -> ScanString(s, i + 1, <<>>)
           [] s[i] = "{" -> ScanObject(s, SkipWhitespace(s, i + 1), EmptyDict)
           [] s[i] = "[" -> ScanArray(s, SkipWhitespace(s, i + 1), <<>>)
           [] startswith(SliceFrom(s, i - 1), L_null) -> Decoded(PyNone, i + 4)
           [] startswith(SliceFrom(s, i - 1), L_true) -> Decoded(PyBool(TRUE), i + 4)
           [] startswith(SliceFrom(s, i - 1), L_false) -> Decoded(PyBool(FALSE), i + 5)
           [] s[i] = "-" \/ s[i] \in Digits -> ScanNumber(s, i)
           [] OTHER -> DecodeError

\* one element of a JSONArray at index i and the separator after it
ScanElement(s, i) ==
    LET r == ScanValue(s, i)
        j == SkipWhitespace(s, r.i)
    IN  IF ~r.ok \/ j > Len(s) \/ s[j] \notin {"]", ","} THEN [ok |-> FALSE]
        ELSE [ok |-> TRUE, v |-> r.v, last |-> s[j] = "]",
              i |-> IF s[j] = "]" THEN j + 1 ELSE SkipWhitespace(s, j + 1)]

\* JSONArray: the elements from index i on, after acc
ScanArray(s, i, acc) ==
    LET e == ScanElement(s, i)
    IN  IF acc = <<>> /\ i <= Len(s) /\ s[i] = "]" THEN Decoded(PyList(<<>>), i + 1)
        ELSE IF ~e.ok THEN DecodeError
        ELSE IF e.last THEN Decoded(PyList(Append(acc, e.v)), e.i)
        ELSE ScanArray(s, e.i, Append(acc, e.v))

\* one member of a JSONObject at index i (key, colon, value) and the separator after it
ScanMember(s, i) ==
    IF i > Len(s) \/ s[i] # "\"" THEN [ok |-> FALSE]
    ELSE LET k == ScanString(s, i + 1, <<>>)
             c == SkipWhitespace(s, k.i)
         IN  IF ~k.ok \/ c > Len(s) \/ s[c] # ":" THEN [ok |-> FALSE]
             ELSE LET r == ScanValue(s, SkipWhitespace(s, c + 1))
                      j == SkipWhitespace(s, r.i)
                  IN  IF ~r.ok \/ j > Len(s) \/ s[j] \notin {"}", ","} THEN [ok |-> FALSE]
                      ELSE [ok |-> TRUE, k |-> k.v.s, v |-> r.v, last |-> s[j] = "}",
                            i |-> IF s[j] = "}" THEN j + 1 ELSE SkipWhitespace(s, j + 1)]

\* JSONObject: the members from index i on, added to acc (a repeated key keeps the last)
ScanObject(s, i, acc) ==
    LET m == ScanMember(s, i)
    IN  IF acc = EmptyDict /\ i <= Len(s) /\ s[i] = "}" THEN Decoded(EmptyDict, i + 1)
        ELSE IF ~m.ok THEN DecodeError
        ELSE IF m.last THEN Decoded(SetItem(acc, m.k, m.v), m.i)
        ELSE ScanObject(s, m.i, SetItem(acc, m.k, m.v))

\* json.loads(s): ok is FALSE where it raises json.JSONDecodeError
json_loads(s) ==
    LET r == ScanValue(s, SkipWhitespace(s, 1))
    IN  IF ~r.ok THEN DecodeError
        ELSE IF SkipWhitespace(s, r.i) # Len(s) + 1 THEN DecodeError
        ELSE r

-----------------------------------------------------------------------------
(* Outcome of a call: the value returned, or the exception raised *)

\* cause is the exception an exception was raised from ("" where there is none)
Return(v) == [exc |-> "none", code |-> "", cause |-> "", val |-> v]
Raise(e, code, cause) == [exc |-> e, code |-> code, cause |-> cause, val |-> PyNone]

-----------------------------------------------------------------------------
(* LLMService._parse_llm_response *)

\* key in obj: "yes", "no", or "TypeError" where obj is not a container
Contains(obj, key) ==
    CASE obj.t = "dict" -> IF key \in DOMAIN obj.m THEN "yes" ELSE "no"
      [] obj.t = "list" ->
            IF \E i \in 1..Len(obj.items) : obj.items[i] = PyStr(key) THEN "yes" ELSE "no"
      [] obj.t = "str" -> IF IsSubstring(key, obj.s) THEN "yes" ELSE "no"
      [] OTHER -> "TypeError"

\* if key not in result: result[key] = default
SetDefault(out, key, default) ==
    IF out.exc # "none" THEN out
    ELSE LET c == Contains(out.val, key)
         IN  IF c = "TypeError" THEN Raise("TypeError", "", "")
             ELSE IF c = "yes" THEN out
             ELSE IF out.val.t = "dict" THEN Return(SetItem(out.val, key, default))
             ELSE Raise("TypeError", "", "")

\* StripFences without the case of the fence tagged json
StripFences_PlainFenceOnly(text) ==
    LET r0 == strip(text)
        r2 == IF startswith(r0, Fence) THEN SliceFrom(r0, 3) ELSE r0
        r3 == IF endswith(r2, Fence) THEN SliceToLast(r2, 3) ELSE r2
    IN  strip(r3)

\* the text handed to json.loads: strip, drop the fences, strip
StripFences(text) ==
    LET r0 == strip(text)
        r1 == IF startswith(r0, FenceJson) THEN SliceFrom(r0, 7) ELSE r0
        r2 == IF startswith(r1, Fence) THEN SliceFrom(r1, 3) ELSE r1
        r3 == IF endswith(r2, Fence) THEN SliceToLast(r2, 3) ELSE r2
    IN  strip(r3)

\* the text of the fallback finding description
FallbackDescription(text) == SliceTo(StripFences(text), DescriptionLimit)

\* the structure returned when json.loads raises JSONDecodeError
FallbackResult(text) ==
    PyDict(
        K_summary :> PyStr(T_ParsingFailed)
        @@ K_findings :> PyList(<<PyDict(
               K_severity :> PyStr(T_info)
               @@ K_title :> PyStr(T_AnalysisResult)
               @@ K_description :> PyStr(FallbackDescription(text))
               @@ K_affected_logs_count :> PyInt(0)
               @@ K_suggested_fix :> PyStr(T_ManualReview))>>)
        @@ K_recommendations :> PyList(<<PyStr(T_ReviewLogs)>>)
        @@ K_most_common_errors :> PyList(<<>>))

\* the four required keys set to their defaults whether present or not
ValidateRequiredFields_Overwrite(parsed) ==
    IF parsed.t # "dict" THEN Raise("TypeError", "", "")
    ELSE Return(SetItem(SetItem(SetItem(SetItem(parsed,
                    K_summary, PyStr(T_AnalysisCompleted)),
                    K_findings, PyList(<<>>)),
                    K_recommendations, PyList(<<>>)),
                    K_most_common_errors, PyList(<<>>)))

\* the four required keys, filled in this order when missing
ValidateRequiredFields(parsed) ==
    SetDefault(
        SetDefault(
            SetDefault(
                SetDefault(Return(parsed), K_summary, PyStr(T_AnalysisCompleted)),
                K_findings, PyList(<<>>)),
            K_recommendations, PyList(<<>>)),
        K_most_common_errors, PyList(<<>>))

_parse_llm_response(text) ==
    LET r == json_loads(StripFences(text))
    IN  IF r.ok THEN ValidateRequiredFields(r.v) ELSE Return(FallbackResult(text))

-----------------------------------------------------------------------------
(* LLMService.analyze_logs *)

\* what chain.invoke({}) does: returns a message with this content, or raises
Invocation(ok, content) == [ok |-> ok, content |-> content]

\* lines 94-109: the parse of the content, any exception wrapped as LLMError
ReturnAnalysis(parsed) ==
    IF parsed.exc = "none" THEN parsed
    ELSE Raise("LLMError", "LLM_ANALYSIS_ERROR", parsed.exc)

LLMService_analyze_logs(invocation) ==
    IF ~invocation.ok THEN Raise("LLMError", "LLM_ANALYSIS_ERROR", "ProviderError")
    ELSE ReturnAnalysis(_parse_llm_response(invocation.content))

-----------------------------------------------------------------------------
(* AnalysisFinding and AnalysisService._convert_findings *)

\* Literal["critical", "high", "medium", "low", "info"]
FindingSeverities == {T_critical, T_high, T_medium, T_low, T_info}

\* the int a str is coerced to by an int field: -?[0-9]+
IsIntString(s) ==
    LET d == IF s # <<>> /\ s[1] = "-" THEN Tail(s) ELSE s
    IN  d # <<>> /\ \A i \in 1..Len(d) : d[i] \in Digits

IntOfString(s) ==
    IF s[1] = "-" THEN 0 - ScanDigits(Tail(s), 1, 0).v.n ELSE ScanDigits(s, 1, 0).v.n

\* validation of one field value against its annotation
\* a severity field annotated str instead of the Literal
ValidSeverity_AnyStr(v) == v.t = "str"
ValidSeverity(v) == v.t = "str" /\ v.s \in FindingSeverities
ValidStr(v) == v.t = "str"
ValidInt(v) == v.t \in {"num", "bool"} \/ (v.t = "str" /\ IsIntString(v.s))
ValidOptionalStr(v) == v.t \in {"str", "null"}

IntOf(v) ==
    CASE v.t = "num" -> v.n
      [] v.t = "bool" -> IF v.b THEN 1 ELSE 0
      [] OTHER -> IntOfString(v.s)

\* the keyword arguments built from one raw finding (a dict) by finding.get
FindingArguments(finding) ==
    [severity |-> DictGet(finding, K_severity, PyStr(T_info)),
     title |-> DictGet(finding, K_title, PyStr(T_UnknownIssue)),
     description |-> DictGet(finding, K_description, PyStr(<<>>)),
     affected_logs_count |-> DictGet(finding, K_affected_logs_count, PyInt(0)),
     suggested_fix |-> DictGet(finding, K_suggested_fix, PyStr(<<>>)),
     code_example |-> DictGet(finding, K_code_example, PyNone)]

\* the fields other than severity validate
ValidOtherFields(a) ==
    /\ ValidStr(a.title)
    /\ ValidStr(a.description)
    /\ ValidInt(a.affected_logs_count)
    /\ ValidStr(a.suggested_fix)
    /\ ValidOptionalStr(a.code_example)

\* AnalysisFinding(**kwargs) validates
ValidFindingArguments(a) == ValidSeverity(a.severity) /\ ValidOtherFields(a)

\* the AnalysisFinding built from valid arguments
AnalysisFinding(a) ==
    [severity |-> a.severity.s,
     title |-> a.title.s,
     description |-> a.description.s,
     affected_logs_count |-> IntOf(a.affected_logs_count),
     suggested_fix |-> a.suggested_fix.s,
     code_example |-> a.code_example]

\* the try block of the loop succeeds for this element
Convertible(finding) ==
    finding.t = "dict" /\ ValidFindingArguments(FindingArguments(finding))

RECURSIVE SetToSeq(_)
SetToSeq(S) ==
    IF S = {} THEN <<>> ELSE LET x == CHOOSE x \in S : TRUE IN <<x>> \o SetToSeq(S \ {x})

\* for finding in obj
Iterable(obj) == obj.t \in {"list", "str", "dict"}
Elements(obj) ==
    CASE obj.t = "list" -> obj.items
      [] obj.t = "str" -> [i \in 1..Len(obj.s) |-> PyStr(<<obj.s[i]>>)]
      [] obj.t = "dict" -> LET ks == SetToSeq(DOMAIN obj.m)
                           IN  [i \in 1..Len(ks) |-> PyStr(ks[i])]

\* the loop with each finding put in front of those built before it
RECURSIVE ConvertEach_Prepend(_, _)
ConvertEach_Prepend(elems, acc) ==
    IF elems = <<>> THEN acc
    ELSE ConvertEach_Prepend(Tail(elems),
                     IF Convertible(Head(elems))
                     THEN <<AnalysisFinding(FindingArguments(Head(elems)))>> \o acc
                     ELSE acc)

RECURSIVE ConvertEach(_, _)
ConvertEach(elems, acc) ==
    IF elems = <<>> THEN acc
    ELSE ConvertEach(Tail(elems),
                     IF Convertible(Head(elems))
                     THEN Append(acc, AnalysisFinding(FindingArguments(Head(elems))))
                     ELSE acc)

_convert_findings(raw) ==
    IF ~Iterable(raw) THEN Raise("TypeError", "", "")
    ELSE [exc |-> "none", code |-> "", cause |-> "",
          val |-> ConvertEach(Elements(raw), <<>>)]

-----------------------------------------------------------------------------
(* AnalysisService._calculate_statistics *)

\* the key of an entry whose severity field is None
NoneKey == "None"

\* log.get("severity", "UNKNOWN")
SeverityOf(log) == IF "severity" \in DOMAIN log THEN log.severity ELSE "UNKNOWN"

\* the tally with the severity put in upper case first
Tally_CaseFolded(by_severity, severity) ==
    LET folded == IF severity = "error" THEN "ERROR" ELSE severity
    IN  IF folded \in DOMAIN by_severity.count
        THEN [by_severity EXCEPT !.count[folded] = @ + 1]
        ELSE [keys |-> Append(by_severity.keys, folded),
              count |-> by_severity.count @@ (folded :> 1)]

\* the tally without the + 1 on a severity seen before
Tally_Overwrite(by_severity, severity) ==
    IF severity \in DOMAIN by_severity.count
    THEN [by_severity EXCEPT !.count[severity] = 1]
    ELSE [keys |-> Append(by_severity.keys, severity),
          count |-> by_severity.count @@ (severity :> 1)]

\* by_severity[severity] = by_severity.get(severity, 0) + 1, on an insertion-ordered dict
Tally(by_severity, severity) ==
    IF severity \in DOMAIN by_severity.count
    THEN [by_severity EXCEPT !.count[severity] = @ + 1]
    ELSE [keys |-> Append(by_severity.keys, severity),
          count |-> by_severity.count @@ (severity :> 1)]

RECURSIVE TallyAll(_, _)
TallyAll(entries, by_severity) ==
    IF entries = <<>> THEN by_severity
    ELSE TallyAll(Tail(entries), Tally(by_severity, SeverityOf(Head(entries))))

EmptyTally == [keys |-> <<>>, count |-> [k \in {} |-> 0]]

_calculate_statistics(entries, hours_back) ==
    [total_count |-> Len(entries),
     by_severity |-> TallyAll(entries, EmptyTally),
     time_range_hours |-> hours_back]

-----------------------------------------------------------------------------
(* Settings and the clients built from them *)

\* the value of an optional setting or request field that is None
Unset == "<None>"
\* not value
Falsy(value) == value \in {Unset, ""}

\* the settings a deployment can have
SettingsSpace ==
    [gcp_project_id : {Unset, "proj"},
     gcp_log_filter : {"", "g"},
     gcp_log_limit : {1, 100},
     llm_provider : {"openai", "anthropic", "azure"},
     openai_api_key : {Unset, "", "sk-o"},
     anthropic_api_key : {Unset, "sk-a"},
     max_log_entries_to_analyze : {1, 2, 50}]

\* GCPLoggingClient._initialize_client; client_ok: logging.Client(...) returns
_initialize_client(s, client_ok) ==
    IF Falsy(s.gcp_project_id)
    THEN Raise("GCPIntegrationError", "GCP_CLIENT_INIT_ERROR",
               "GCPIntegrationError:GCP_PROJECT_ID_MISSING")
    ELSE IF ~client_ok
    THEN Raise("GCPIntegrationError", "GCP_CLIENT_INIT_ERROR", "ClientError")
    ELSE Return(PyBool(TRUE))

\* _initialize_llm raising for a provider that is neither "anthropic" nor "openai"
_initialize_llm_RejectUnknown(s, client_ok) ==
    IF s.llm_provider \notin {"anthropic", "openai"}
    THEN Raise("LLMError", "LLM_INIT_ERROR", "LLMError:UNKNOWN_PROVIDER")
    ELSE IF Falsy(IF s.llm_provider = "anthropic" THEN s.anthropic_api_key
                  ELSE s.openai_api_key)
    THEN Raise("LLMError", "LLM_INIT_ERROR",
               IF s.llm_provider = "anthropic" THEN "LLMError:ANTHROPIC_API_KEY_MISSING"
               ELSE "LLMError:OPENAI_API_KEY_MISSING")
    ELSE IF ~client_ok THEN Raise("LLMError", "LLM_INIT_ERROR", "ClientError")
    ELSE Return([t |-> "client", kind |-> s.llm_provider])

\* _initialize_llm without the checks of the keys
_initialize_llm_NoKeyCheck(s, client_ok) ==
    IF ~client_ok THEN Raise("LLMError", "LLM_INIT_ERROR", "ClientError")
    ELSE Return([t |-> "client",
                 kind |-> IF s.llm_provider = "anthropic" THEN "anthropic" ELSE "openai"])

\* LLMService._initialize_llm; client_ok: the chat model constructor returns
_initialize_llm(s, client_ok) ==
    IF s.llm_provider = "anthropic"
    THEN IF Falsy(s.anthropic_api_key)
         THEN Raise("LLMError", "LLM_INIT_ERROR", "LLMError:ANTHROPIC_API_KEY_MISSING")
         ELSE IF ~client_ok THEN Raise("LLMError", "LLM_INIT_ERROR", "ClientError")
         ELSE Return([t |-> "client", kind |-> "anthropic"])
    ELSE IF Falsy(s.openai_api_key)
         THEN Raise("LLMError", "LLM_INIT_ERROR", "LLMError:OPENAI_API_KEY_MISSING")
         ELSE IF ~client_ok THEN Raise("LLMError", "LLM_INIT_ERROR", "ClientError")
         ELSE Return([t |-> "client", kind |-> "openai"])

\* the key of the provider llm_provider selects is absent
SelectedKeyAbsent(s) ==
    IF s.llm_provider = "anthropic" THEN Falsy(s.anthropic_api_key)
    ELSE Falsy(s.openai_api_key)

\* an AnalysisService under construction: no client built yet
NoService == [gcp_client |-> FALSE, llm |-> "none", built |-> FALSE]

\* AnalysisService.__init__ leaving the model client to be built when first needed
AnalysisService_init_LazyLLM(s, gcp_ok, llm_ok, rest_ok) ==
    LET g == _initialize_client(s, gcp_ok)
    IN  IF g.exc # "none" THEN [service |-> NoService, raised |-> g]
        ELSE IF ~rest_ok
        THEN [service |-> [gcp_client |-> TRUE, llm |-> "none", built |-> FALSE],
              raised |-> Raise("OSError", "", "")]
        ELSE [service |-> [gcp_client |-> TRUE, llm |-> "none", built |-> TRUE],
              raised |-> Return(PyNone)]

\* AnalysisService.__init__: the clients in order, the first failure ends it
AnalysisService_init(s, gcp_ok, llm_ok, rest_ok) ==
    LET g == _initialize_client(s, gcp_ok)
        l == _initialize_llm(s, llm_ok)
    IN  IF g.exc # "none" THEN [service |-> NoService, raised |-> g]
        ELSE IF l.exc # "none"
        THEN [service |-> [NoService EXCEPT !.gcp_client = TRUE], raised |-> l]
        ELSE IF ~rest_ok
        THEN [service |-> [gcp_client |-> TRUE, llm |-> l.val.kind, built |-> FALSE],
              raised |-> Raise("OSError", "", "")]
        ELSE [service |-> [gcp_client |-> TRUE, llm |-> l.val.kind, built |-> TRUE],
              raised |-> Return(PyNone)]

-----------------------------------------------------------------------------
(* The log source and GCPLoggingClient.fetch_logs *)

\* severities of the log source, in its order
SeverityRank(sev) ==
    CASE sev = "INFO" -> 200 [] sev = "WARNING" -> 400 [] sev = "ERROR" -> 500
      [] OTHER -> 0

ErrorFilter == "severity >= \"WARNING\""

\* max_results = None, and max_logs = None of the request
NoLimit == 0

\* _build_timestamp_filter(hours_back): timestamp >= now - hours_back
_build_timestamp_filter(hours_back) == [field |-> "timestamp", hours |-> hours_back, text |-> ""]

\* a filter expression ANDed to the timestamp filter
Conjunct(text) == [field |-> "query", hours |-> 0, text |-> text]

\* the log source evaluates one conjunct of a filter on a raw entry
Matches(entry, conjunct) ==
    CASE conjunct.field = "timestamp" -> entry.age_hours <= conjunct.hours
      [] conjunct.text = ErrorFilter ->
            SeverityRank(entry.severity) >= SeverityRank("WARNING")
      [] OTHER -> conjunct.text \in entry.matches

\* full_filter with the configured filter taken before the filter of the call
full_filter_DefaultWins(s, filter_query, hours_back) ==
    IF ~Falsy(s.gcp_log_filter)
    THEN <<_build_timestamp_filter(hours_back), Conjunct(s.gcp_log_filter)>>
    ELSE IF ~Falsy(filter_query)
    THEN <<_build_timestamp_filter(hours_back), Conjunct(filter_query)>>
    ELSE <<_build_timestamp_filter(hours_back)>>

\* full_filter with the configured filter ANDed to every query
full_filter_AlwaysDefault(s, filter_query, hours_back) ==
    <<_build_timestamp_filter(hours_back)>>
        \o (IF ~Falsy(filter_query) THEN <<Conjunct(filter_query)>> ELSE <<>>)
        \o (IF ~Falsy(s.gcp_log_filter) THEN <<Conjunct(s.gcp_log_filter)>> ELSE <<>>)

\* fetch_logs lines 99-108: the conjuncts of full_filter
full_filter(s, filter_query, hours_back) ==
    IF ~Falsy(filter_query) THEN <<_build_timestamp_filter(hours_back), Conjunct(filter_query)>>
    ELSE IF ~Falsy(s.gcp_log_filter)
    THEN <<_build_timestamp_filter(hours_back), Conjunct(s.gcp_log_filter)>>
    ELSE <<_build_timestamp_filter(hours_back)>>

RECURSIVE SelectSeq2(_, _)
SelectSeq2(entries, conjuncts) ==
    IF entries = <<>> THEN <<>>
    ELSE LET rest == SelectSeq2(Tail(entries), conjuncts)
         IN  IF \A i \in 1..Len(conjuncts) : Matches(Head(entries), conjuncts[i])
             THEN <<Head(entries)>> \o rest ELSE rest

\* the pages of at most page_size entries the log source answers with
RECURSIVE Pages(_, _)
Pages(entries, page_size) ==
    IF entries = <<>> THEN <<>>
    ELSE LET n == Min(page_size, Len(entries))
         IN  <<SubSeq(entries, 1, n)>> \o Pages(SubSeq(entries, n + 1, Len(entries)), page_size)

\* client.list_entries(filter_=..., page_size=...): the iterator over every entry the
\* filter matches, which the log source hands over page by page
list_entries(source, conjuncts, page_size) == Pages(SelectSeq2(source, conjuncts), page_size)

\* for entry in entries: the iterator goes through every page
RECURSIVE Iterate(_)
Iterate(pages) == IF pages = <<>> THEN <<>> ELSE Head(pages) \o Iterate(Tail(pages))

\* fetch_logs lines 128-137: the dictionary built from one raw entry
LogEntry(entry) ==
    [severity |-> entry.severity,
     text_payload |-> IF entry.payload = "str" THEN "text" ELSE Unset,
     json_payload |-> IF entry.payload = "dict" THEN "map" ELSE Unset,
     insert_id |-> entry.insert_id]

\* max_results or self.settings.gcp_log_limit
page_size(s, max_results) == IF max_results # NoLimit THEN max_results ELSE s.gcp_log_limit

\* fetch_logs; sent: the arguments of list_entries
fetch_logs(s, source, source_ok, filter_query, hours_back, max_results) ==
    LET sent == [filter_ |-> full_filter(s, filter_query, hours_back),
                 page_size |-> page_size(s, max_results)]
    IN  IF ~source_ok
        THEN [exc |-> "GCPIntegrationError", code |-> "GCP_LOG_FETCH_ERROR",
              cause |-> "SourceError", val |-> PyNone, sent |-> sent]
        ELSE LET raw == Iterate(list_entries(source, sent.filter_, sent.page_size))
             IN  [exc |-> "none", code |-> "", cause |-> "",
                  val |-> [i \in 1..Len(raw) |-> LogEntry(raw[i])], sent |-> sent]

fetch_error_logs(s, source, source_ok, hours_back, max_results) ==
    fetch_logs(s, source, source_ok, ErrorFilter, hours_back, max_results)

\* get_log_statistics: the tally of lines 224-233 over fetch_logs(hours_back=hours_back)
get_log_statistics(s, source, source_ok, hours_back) ==
    LET f == fetch_logs(s, source, source_ok, Unset, hours_back, NoLimit)
    IN  IF f.exc # "none" THEN Raise("GCPIntegrationError", "GCP_STATS_ERROR", f.exc)
        ELSE Return([total_count |-> Len(f.val),
                     by_severity |-> TallyAll(f.val, EmptyTally),
                     time_range_hours |-> hours_back])

\* AnalysisService._fetch_logs
_fetch_logs(s, req, source, source_ok) ==
    IF req.focus_on_errors
    THEN fetch_error_logs(s, source, source_ok, req.hours_back, req.max_logs)
    ELSE fetch_logs(s, source, source_ok, req.filter_query, req.hours_back, req.max_logs)

-----------------------------------------------------------------------------
(* AnalysisService.analyze_logs: its steps and its except clause *)

\* LLMService._prepare_log_summary and _get_analysis_prompt

\* logs[:max_logs], for any int max_logs
ListSliceTo(entries, max_logs) ==
    IF max_logs >= 0 THEN SubSeq(entries, 1, Min(max_logs, Len(entries)))
    ELSE SubSeq(entries, 1, Len(entries) + max_logs)

\* the text written for entry i: its number, its severity and its payload line
LogText(i, log) ==
    [number |-> i,
     severity |-> log.severity,
     payload |-> IF log.text_payload # Unset THEN "Message"
                 ELSE IF log.json_payload # Unset THEN "JSON" ELSE ""]

\* _prepare_log_summary with every entry written
_prepare_log_summary_All(s, entries) ==
    [i \in 1..Len(entries) |-> LogText(i, entries[i])]

\* _prepare_log_summary: the texts of logs[:max_logs], joined in order
_prepare_log_summary(s, entries) ==
    LET logs_to_analyze == ListSliceTo(entries, s.max_log_entries_to_analyze)
    IN  [i \in 1..Len(logs_to_analyze) |-> LogText(i, logs_to_analyze[i])]

\* _get_analysis_prompt: the statistics and the summary the prompt is written from
_get_analysis_prompt(log_summary, stats) ==
    [total_count |-> stats.total_count,
     time_range_hours |-> stats.time_range_hours,
     by_severity |-> stats.by_severity,
     logs |-> log_summary]

\* no exception is propagating / no value has been returned
NoException == [exc |-> "none"]
NoOutcome == [exc |-> "unset", code |-> "", cause |-> "", val |-> PyNone]
NoStatistics == [total_count |-> 0, by_severity |-> EmptyTally, time_range_hours |-> 0]
NoRequest ==
    [hours_back |-> 0, filter_query |-> Unset, max_logs |-> NoLimit,
     focus_on_errors |-> FALSE, output_format |-> "markdown"]
NoSent == [filter_ |-> <<>>, page_size |-> 0]
NoRendered ==
    [analysis_id |-> 0, statistics |-> NoStatistics, findings |-> <<>>, summary |-> PyNone,
     recommendations |-> PyNone, output_format |-> ""]
NoPrompt ==
    [total_count |-> 0, time_range_hours |-> 0, by_severity |-> EmptyTally, logs |-> <<>>]
NoCalls ==
    [fetch |-> 0, llm |-> 0, render |-> 0, sent |-> NoSent, rendered |-> NoRendered,
     prompt |-> NoPrompt]

\* analyze_logs without its except clause: the exception of the step leaves it
AnalysisError_Reraise(id, e) == [exc |-> e.exc, code |-> e.code, cause |-> e.cause]
\* the except clause raising an exception of the type it caught
AnalysisError_CauseType(id, e) ==
    [exc |-> e.exc, code |-> "ANALYSIS_ERROR", analysis_id |-> id, cause |-> e.exc]

\* lines 118-130: the exception analyze_logs raises from the exception e of a step
AnalysisError(id, e) ==
    [exc |-> "LogAnalysisError", code |-> "ANALYSIS_ERROR", analysis_id |-> id,
     cause |-> e.exc]

\* _create_empty_response
_create_empty_response(id, req) ==
    [analysis_id |-> id,
     statistics |-> [total_logs |-> 0, by_severity |-> EmptyTally,
                     time_range_hours |-> req.hours_back, most_common_errors |-> <<>>],
     findings |-> <<>>,
     summary |-> T_NoLogsFound,
     document_path |-> [name |-> 0, format |-> ""],
     recommendations |-> <<T_CheckConfig>>]

\* llm_analysis.get(key, default): AttributeError where llm_analysis is not a dict
Get(obj, key, default) ==
    IF obj.t = "dict" THEN Return(DictGet(obj, key, default))
    ELSE Raise("AttributeError", "", "")

\* a value a list[str] field accepts
ValidListOfStr(v) ==
    v.t = "list" /\ \A i \in 1..Len(v.items) : v.items[i].t = "str"

\* the str values of a list of str
Strings(v) == [i \in 1..Len(v.items) |-> v.items[i].s]

\* a by_severity value a dict[str, int] field accepts: no key is None
ValidBySeverity(by_severity) ==
    \A i \in 1..Len(by_severity.keys) : by_severity.keys[i] # NoneKey

\* LogAnalysisResponse built without the document_path argument: the field keeps its default
LogAnalysisResponse_NoPath(id, stats, analysis, converted, path) ==
    LET errors == DictGet(analysis, K_most_common_errors, PyList(<<>>))
        summary == DictGet(analysis, K_summary, PyStr(<<>>))
        recs == DictGet(analysis, K_recommendations, PyList(<<>>))
    IN  IF /\ ValidBySeverity(stats.by_severity)
           /\ ValidListOfStr(errors)
           /\ ValidStr(summary)
           /\ ValidListOfStr(recs)
        THEN [exc |-> "none", code |-> "", cause |-> "",
              val |-> [analysis_id |-> id,
                       statistics |-> [total_logs |-> stats.total_count,
                                       by_severity |-> stats.by_severity,
                                       time_range_hours |-> stats.time_range_hours,
                                       most_common_errors |-> Strings(errors)],
                       findings |-> converted,
                       summary |-> summary.s,
                       document_path |-> [name |-> 0, format |-> ""],
                       recommendations |-> Strings(recs)]]
        ELSE Raise("ValidationError", "", "")

\* lines 92-105: LogAnalysisResponse(...) with its LogStatistics, which validate
LogAnalysisResponse(id, stats, analysis, converted, path) ==
    LET errors == DictGet(analysis, K_most_common_errors, PyList(<<>>))
        summary == DictGet(analysis, K_summary, PyStr(<<>>))
        recs == DictGet(analysis, K_recommendations, PyList(<<>>))
    IN  IF /\ ValidBySeverity(stats.by_severity)
           /\ ValidListOfStr(errors)
           /\ ValidStr(summary)
           /\ ValidListOfStr(recs)
        THEN [exc |-> "none", code |-> "", cause |-> "",
              val |-> [analysis_id |-> id,
                       statistics |-> [total_logs |-> stats.total_count,
                                       by_severity |-> stats.by_severity,
                                       time_range_hours |-> stats.time_range_hours,
                                       most_common_errors |-> Strings(errors)],
                       findings |-> converted,
                       summary |-> summary.s,
                       document_path |-> path,
                       recommendations |-> Strings(recs)]]
        ELSE Raise("ValidationError", "", "")

\* lines 81-89: the keyword arguments handed to generate_document (the timestamp, a
\* clock reading, is left out of the model)
RenderArguments(id, stats, converted, analysis, output_format) ==
    [analysis_id |-> id,
     statistics |-> stats,
     findings |-> converted,
     summary |-> DictGet(analysis, K_summary, PyStr(<<>>)),
     recommendations |-> DictGet(analysis, K_recommendations, PyList(<<>>)),
     output_format |-> output_format]

\* DocumentService.generate_document: the path it writes, named by the analysis
\* identifier and the format, or the failure of the write
generate_document(args, write_ok) ==
    IF write_ok THEN [exc |-> "none", code |-> "", cause |-> "",
                      val |-> [name |-> args.analysis_id, format |-> args.output_format]]
    ELSE Raise("RenderFailed", "", "")

-----
(* What the model provider can return *)

\* {}
Obj_Empty == <<"{","}">>
\* {"summary":"ok"}
Obj_SummaryOnly == <<"{","\"","s","u","m","m","a","r","y","\"",":","\"","o","k","\"","}">>
\* {"summary":"s","findings":[{"severity":"high","title":"t","description":"d","affected_logs_count":2,"suggested_fix":"f"}],"recommendations":["r"],"most_common_errors":["e"]}
Obj_Full == <<"{","\"","s","u","m","m","a","r","y","\"",":","\"","s","\"",",","\"","f","i","n","d","i","n","g","s","\"",":","[","{","\"","s","e","v","e","r","i","t","y","\"",":","\"","h","i","g","h","\"",",","\"","t","i","t","l","e","\"",":","\"","t","\"",",","\"","d","e","s","c","r","i","p","t","i","o","n","\"",":","\"","d","\"",",","\"","a","f","f","e","c","t","e","d","_","l","o","g","s","_","c","o","u","n","t","\"",":","2",",","\"","s","u","g","g","e","s","t","e","d","_","f","i","x","\"",":","\"","f","\"","}","]",",","\"","r","e","c","o","m","m","e","n","d","a","t","i","o","n","s","\"",":","[","\"","r","\"","]",",","\"","m","o","s","t","_","c","o","m","m","o","n","_","e","r","r","o","r","s","\"",":","[","\"","e","\"","]","}">>
\* {"summary":"s","findings":[{"severity":"high","title":"t","description":"d","affected_logs_count":2,"suggested_fix":"f"}],"recommendations":["r"],"most_common_errors":["x"]}
Obj_FullOtherErrors == <<"{","\"","s","u","m","m","a","r","y","\"",":","\"","s","\"",",","\"","f","i","n","d","i","n","g","s","\"",":","[","{","\"","s","e","v","e","r","i","t","y","\"",":","\"","h","i","g","h","\"",",","\"","t","i","t","l","e","\"",":","\"","t","\"",",","\"","d","e","s","c","r","i","p","t","i","o","n","\"",":","\"","d","\"",",","\"","a","f","f","e","c","t","e","d","_","l","o","g","s","_","c","o","u","n","t","\"",":","2",",","\"","s","u","g","g","e","s","t","e","d","_","f","i","x","\"",":","\"","f","\"","}","]",",","\"","r","e","c","o","m","m","e","n","d","a","t","i","o","n","s","\"",":","[","\"","r","\"","]",",","\"","m","o","s","t","_","c","o","m","m","o","n","_","e","r","r","o","r","s","\"",":","[","\"","x","\"","]","}">>
\* { "findings" : [ ] ,\n "extra" : 1 }
Obj_Spaced == <<"{"," ","\"","f","i","n","d","i","n","g","s","\""," ",":"," ","["," ","]"," ",",","\n"," ","\"","e","x","t","r","a","\""," ",":"," ","1"," ","}">>
\* {"findings":null}
Obj_FindingsNull == <<"{","\"","f","i","n","d","i","n","g","s","\"",":","n","u","l","l","}">>
\* {"summary":null}
Obj_SummaryNull == <<"{","\"","s","u","m","m","a","r","y","\"",":","n","u","l","l","}">>
\* {"findings":[{"severity":"low","title":"a"},{"title":"b"},{"severity":"urgent","title":"c"}]}
Obj_Mixed == <<"{","\"","f","i","n","d","i","n","g","s","\"",":","[","{","\"","s","e","v","e","r","i","t","y","\"",":","\"","l","o","w","\"",",","\"","t","i","t","l","e","\"",":","\"","a","\"","}",",","{","\"","t","i","t","l","e","\"",":","\"","b","\"","}",",","{","\"","s","e","v","e","r","i","t","y","\"",":","\"","u","r","g","e","n","t","\"",",","\"","t","i","t","l","e","\"",":","\"","c","\"","}","]","}">>
\* [1]
Json_Array == <<"[","1","]">>
\* []
Json_EmptyArray == <<"[","]">>
\* "a"
Json_String == <<"\"","a","\"">>
\* 7
Json_Number == <<"7">>
\* null
Json_Null == <<"n","u","l","l">>
\* true
Json_True == <<"t","r","u","e">>
\* "summary findings recommendations most_common_errors"
Json_KeysString == <<"\"","s","u","m","m","a","r","y"," ","f","i","n","d","i","n","g","s"," ","r","e","c","o","m","m","e","n","d","a","t","i","o","n","s"," ","m","o","s","t","_","c","o","m","m","o","n","_","e","r","r","o","r","s","\"">>
\* ["summary","findings","recommendations","most_common_errors"]
Json_KeysArray == <<"[","\"","s","u","m","m","a","r","y","\"",",","\"","f","i","n","d","i","n","g","s","\"",",","\"","r","e","c","o","m","m","e","n","d","a","t","i","o","n","s","\"",",","\"","m","o","s","t","_","c","o","m","m","o","n","_","e","r","r","o","r","s","\"","]">>
\* oops
Bad_Prose == <<"o","o","p","s">>
\* {"summary":
Bad_Truncated == <<"{","\"","s","u","m","m","a","r","y","\"",":">>
\* Here: {}
Bad_Prefixed == <<"H","e","r","e",":"," ","{","}">>
\* json
Tag_json == <<"j","s","o","n">>
\* js
Tag_js == <<"j","s">>
\* {"severity":"critical","title":"a","description":"d","affected_logs_count":5,"suggested_fix":"f","code_example":"c"}
F_Valid1 == <<"{","\"","s","e","v","e","r","i","t","y","\"",":","\"","c","r","i","t","i","c","a","l","\"",",","\"","t","i","t","l","e","\"",":","\"","a","\"",",","\"","d","e","s","c","r","i","p","t","i","o","n","\"",":","\"","d","\"",",","\"","a","f","f","e","c","t","e","d","_","l","o","g","s","_","c","o","u","n","t","\"",":","5",",","\"","s","u","g","g","e","s","t","e","d","_","f","i","x","\"",":","\"","f","\"",",","\"","c","o","d","e","_","e","x","a","m","p","l","e","\"",":","\"","c","\"","}">>
\* {"severity":"high","title":"b","description":"d","suggested_fix":"f","code_example":null}
F_Valid2 == <<"{","\"","s","e","v","e","r","i","t","y","\"",":","\"","h","i","g","h","\"",",","\"","t","i","t","l","e","\"",":","\"","b","\"",",","\"","d","e","s","c","r","i","p","t","i","o","n","\"",":","\"","d","\"",",","\"","s","u","g","g","e","s","t","e","d","_","f","i","x","\"",":","\"","f","\"",",","\"","c","o","d","e","_","e","x","a","m","p","l","e","\"",":","n","u","l","l","}">>
\* {"title":"c","description":"d","affected_logs_count":1,"suggested_fix":"f"}
F_NoSeverity == <<"{","\"","t","i","t","l","e","\"",":","\"","c","\"",",","\"","d","e","s","c","r","i","p","t","i","o","n","\"",":","\"","d","\"",",","\"","a","f","f","e","c","t","e","d","_","l","o","g","s","_","c","o","u","n","t","\"",":","1",",","\"","s","u","g","g","e","s","t","e","d","_","f","i","x","\"",":","\"","f","\"","}">>
\* {"severity":"urgent","title":"e"}
F_BadSeverity == <<"{","\"","s","e","v","e","r","i","t","y","\"",":","\"","u","r","g","e","n","t","\"",",","\"","t","i","t","l","e","\"",":","\"","e","\"","}">>
\* {"severity":null,"title":"g"}
F_NullSeverity == <<"{","\"","s","e","v","e","r","i","t","y","\"",":","n","u","l","l",",","\"","t","i","t","l","e","\"",":","\"","g","\"","}">>
\* {"severity":"low","title":7}
F_BadTitle == <<"{","\"","s","e","v","e","r","i","t","y","\"",":","\"","l","o","w","\"",",","\"","t","i","t","l","e","\"",":","7","}">>
\* {"severity":"low","title":"n","affected_logs_count":-1}
F_NegativeCount == <<"{","\"","s","e","v","e","r","i","t","y","\"",":","\"","l","o","w","\"",",","\"","t","i","t","l","e","\"",":","\"","n","\"",",","\"","a","f","f","e","c","t","e","d","_","l","o","g","s","_","c","o","u","n","t","\"",":","-","1","}">>
\* {"severity":"low","title":"s","affected_logs_count":"5"}
F_StringCount == <<"{","\"","s","e","v","e","r","i","t","y","\"",":","\"","l","o","w","\"",",","\"","t","i","t","l","e","\"",":","\"","s","\"",",","\"","a","f","f","e","c","t","e","d","_","l","o","g","s","_","c","o","u","n","t","\"",":","\"","5","\"","}">>
\* {"severity":"low","title":"m","affected_logs_count":"many"}
F_BadCount == <<"{","\"","s","e","v","e","r","i","t","y","\"",":","\"","l","o","w","\"",",","\"","t","i","t","l","e","\"",":","\"","m","\"",",","\"","a","f","f","e","c","t","e","d","_","l","o","g","s","_","c","o","u","n","t","\"",":","\"","m","a","n","y","\"","}">>
\* {}
F_Empty == <<"{","}">>
\* 1
F_Number == <<"1">>
\* "x"
F_String == <<"\"","x","\"">>
\* []
F_List == <<"[","]">>
\* null
F_Null == <<"n","u","l","l">>
\* null
V_Null == <<"n","u","l","l">>
\* 7
V_Number == <<"7">>
\* "ab"
V_String == <<"\"","a","b","\"">>
\* {"severity":"low"}
V_Object == <<"{","\"","s","e","v","e","r","i","t","y","\"",":","\"","l","o","w","\"","}">>
\* true
V_True == <<"t","r","u","e">>

\* a run of n characters c
Repeat(c, n) == [i \in 1..n |-> c]

\* texts that are JSON objects
JsonObjectTexts ==
    {Obj_Empty, Obj_SummaryOnly, Obj_Full, Obj_Spaced, Obj_FindingsNull, Obj_SummaryNull,
     Obj_Mixed}

\* texts that are JSON, but no object
JsonOtherTexts ==
    {Json_Array, Json_EmptyArray, Json_String, Json_Number, Json_Null, Json_True,
     Json_KeysString, Json_KeysArray}

\* texts that are not JSON, the long ones around the length kept of a description
LongTexts == {Repeat("x", n) : n \in (DescriptionLimit - 1)..(DescriptionLimit + MaxOver)}
NonJsonTexts == {Bad_Prose, Bad_Truncated, Bad_Prefixed} \cup LongTexts

Bodies == JsonObjectTexts \cup JsonOtherTexts \cup NonJsonTexts

\* every text over ShortAlphabet of at most MaxLen characters
ShortAlphabet == {Backtick, " ", "x", "{", "}", "1"}
RECURSIVE TextsOfLength(_)
TextsOfLength(n) ==
    IF n = 0 THEN {<<>>}
    ELSE {Append(t, c) : t \in TextsOfLength(n - 1), c \in ShortAlphabet}
ShortTexts == UNION {TextsOfLength(n) : n \in 0..MaxLen}

\* a body in a fenced code block: the opening fence with a language tag (or none),
\* the closing fence (or none), and whitespace around each part
OpeningFences == {<<>>, Fence, Fence \o Tag_json, Fence \o Tag_js}
ClosingFences == {<<>>, Fence}
OuterPads == {<<>>, <<" ">>}
InnerPads == {<<>>, <<"\n">>}
Wrap(body, lead, open, inner, close, trail) ==
    lead \o open \o inner \o body \o inner \o close \o trail

WrappedTexts ==
    {Wrap(b, lead, open, inner, close, trail) :
        b \in Bodies, lead \in OuterPads, open \in OpeningFences, inner \in InnerPads,
        close \in ClosingFences, trail \in OuterPads}

\* the texts _parse_llm_response is applied to
ResponseTexts == WrappedTexts \cup ShortTexts

\* the texts the model provider returns in the pipeline
PipelineTexts ==
    {Obj_Full, Obj_FullOtherErrors, Obj_Empty, Obj_Mixed, Obj_FindingsNull, Obj_SummaryNull,
     Wrap(Obj_Full, <<>>, Fence \o Tag_json, <<"\n">>, Fence, <<>>),
     Bad_Prose, Json_Array, Json_Null, Json_KeysString}

\* chain.invoke({}): the answer of the provider, or its failure
Invocations ==
    {Invocation(TRUE, t) : t \in PipelineTexts} \cup {Invocation(FALSE, <<>>)}

-----------------------------------------------------------------------------
(* What the model can put under "findings" *)

\* longest raw finding list enumerated
MaxFindings == 2

RawFindingTexts ==
    {F_Valid1, F_Valid2, F_NoSeverity, F_BadSeverity, F_NullSeverity, F_BadTitle,
     F_NegativeCount, F_StringCount, F_BadCount, F_Empty, F_Number, F_String, F_List,
     F_Null}
RawFindings == {json_loads(t).v : t \in RawFindingTexts}

RECURSIVE ListsOfLength(_, _)
ListsOfLength(S, n) ==
    IF n = 0 THEN {<<>>}
    ELSE {Append(l, x) : l \in ListsOfLength(S, n - 1), x \in S}

RawFindingLists == UNION {ListsOfLength(RawFindings, n) : n \in 0..MaxFindings}

\* values of "findings" that are no list
OtherFindingsValues == {json_loads(t).v : t \in {V_Null, V_Number, V_String, V_Object, V_True}}

\* parsed model results: "findings" present with any of these values, or absent
ParsedResults ==
    {PyDict(K_summary :> PyStr(<<"s">>) @@ K_findings :> PyList(l)) : l \in RawFindingLists}
    \cup {PyDict(K_summary :> PyStr(<<"s">>) @@ K_findings :> v) : v \in OtherFindingsValues}
    \cup {PyDict(K_summary :> PyStr(<<"s">>))}

-----------------------------------------------------------------------------
(* What the log source can hold *)

\* longest entry sequence enumerated for the statistics
MaxLogs == 3

\* raw entries of the log source: age_hours is the age of the timestamp, matches the
\* filter expressions the entry satisfies
RawError ==
    [severity |-> "ERROR", payload |-> "str", age_hours |-> 0, matches |-> {"f", "g"},
     insert_id |-> 1]
RawWarning ==
    [severity |-> "WARNING", payload |-> "dict", age_hours |-> 0, matches |-> {},
     insert_id |-> 2]
RawInfo ==
    [severity |-> "INFO", payload |-> "str", age_hours |-> 24, matches |-> {"f", "g"},
     insert_id |-> 3]
RawNoSeverity ==
    [severity |-> NoneKey, payload |-> "none", age_hours |-> 0, matches |-> {"g"},
     insert_id |-> 4]
RawOld ==
    [severity |-> "ERROR", payload |-> "str", age_hours |-> 200, matches |-> {"f", "g"},
     insert_id |-> 5]

Sources ==
    {<<>>, <<RawOld>>, <<RawInfo>>, <<RawError>>, <<RawError, RawWarning, RawInfo>>,
     <<RawNoSeverity, RawError, RawOld>>}

\* entries handed to _calculate_statistics: with a severity, or without the key
StatEntries ==
    {[severity |-> s, insert_id |-> 0] : s \in {"ERROR", "error", "WARNING", NoneKey}}
    \cup {[insert_id |-> 0]}
EntrySequences == UNION {ListsOfLength(StatEntries, n) : n \in 0..MaxLogs}

\* requests that pass the validation of LogAnalysisRequest
Requests ==
    [hours_back : {1, 168}, filter_query : {Unset, "f"}, max_logs : {NoLimit, 1},
     focus_on_errors : BOOLEAN, output_format : {"markdown", "json"}]

-----------------------------------------------------------------------------
(* The POST /analysis/ route serving one request after another *)

\* requests served in a run of the model
MaxRequests == 2

NoPath == [name |-> 0, format |-> ""]
NoResponse == [status |-> 0, code |-> ""]

\* the deployments of the route: the log settings at the defaults of config.py
RouteSettings ==
    {s \in SettingsSpace :
        s.gcp_log_filter = "" /\ s.gcp_log_limit = 100 /\ s.max_log_entries_to_analyze = 50}

Init ==
    /\ settings \in RouteSettings
    /\ pc = "idle"
    /\ request = NoRequest
    /\ service = NoService
    /\ analysis_id = 0
    /\ next_uuid = 0
    /\ served = 0
    /\ logs = <<>>
    /\ statistics = NoStatistics
    /\ response = <<>>
    /\ llm_analysis = NoOutcome
    /\ llm_findings = PyNone
    /\ findings = NoOutcome
    /\ document_path = NoPath
    /\ raised = NoException
    /\ result = NoOutcome
    /\ http = NoResponse
    /\ calls = NoCalls
    /\ log_source = <<>>
    /\ reports = <<>>

\* what a step of analyze_logs leaves alone
Locals == <<logs, statistics, response, llm_analysis, llm_findings, findings, document_path>>

\* the route is entered with a validated request
ReceiveRequest ==
    /\ pc = "idle"
    /\ served < MaxRequests
    /\ request' \in Requests
    /\ pc' = "construct"
    /\ service' = NoService
    /\ analysis_id' = 0
    /\ logs' = <<>>
    /\ statistics' = NoStatistics
    /\ response' = <<>>
    /\ llm_analysis' = NoOutcome
    /\ llm_findings' = PyNone
    /\ findings' = NoOutcome
    /\ document_path' = NoPath
    /\ raised' = NoException
    /\ result' = NoOutcome
    /\ http' = NoResponse
    /\ calls' = NoCalls
    /\ log_source' = <<>>
    /\ UNCHANGED <<reports, settings, next_uuid, served>>

\* service = AnalysisService()
ConstructService ==
    /\ pc = "construct"
    /\ \E gcp_ok \in BOOLEAN, llm_ok \in BOOLEAN, rest_ok \in BOOLEAN :
        LET c == AnalysisService_init(settings, gcp_ok, llm_ok, rest_ok)
        IN  /\ service' = c.service
            /\ IF c.raised.exc = "none"
               THEN pc' = "start" /\ UNCHANGED raised
               ELSE pc' = "route_except" /\ raised' = c.raised
    /\ UNCHANGED <<log_source, reports, settings, request, analysis_id, next_uuid, served, result, http, calls>>
    /\ UNCHANGED Locals

\* a run that takes the identifier of the run before it
StartAnalysis_ReuseId ==
    /\ pc = "start"
    /\ next_uuid' = next_uuid + 1
    /\ analysis_id' = 1
    /\ pc' = "fetch"
    /\ UNCHANGED <<log_source, reports, settings, request, service, served, raised, result, http, calls>>
    /\ UNCHANGED Locals

\* analyze_logs lines 51-52: the identifier of the run
StartAnalysis ==
    /\ pc = "start"
    /\ next_uuid' = next_uuid + 1
    /\ analysis_id' = next_uuid + 1
    /\ pc' = "fetch"
    /\ UNCHANGED <<log_source, reports, settings, request, service, served, raised, result, http, calls>>
    /\ UNCHANGED Locals

\* step 1: logs = self._fetch_logs(request)
FetchLogs ==
    /\ pc = "fetch"
    /\ \E contents \in Sources, source_ok \in BOOLEAN :
        LET f == _fetch_logs(settings, request, contents, source_ok)
        IN  /\ log_source' = contents
            /\ IF f.exc = "none"
               THEN /\ logs' = f.val
                    /\ pc' = "fetched"
                    /\ UNCHANGED raised
               ELSE /\ raised' = AnalysisError(analysis_id, f)
                    /\ pc' = "route_except"
                    /\ UNCHANGED logs
            /\ calls' = [calls EXCEPT !.fetch = @ + 1, !.sent = f.sent]
    /\ UNCHANGED <<reports, settings, request, service, analysis_id, next_uuid, served, result,
                   http>>
    /\ UNCHANGED <<statistics, response, llm_analysis, llm_findings, findings, document_path>>

\* analyze_logs without the test of lines 67-69: the empty run goes on to step 2
EmptyShortCircuit_Missing ==
    /\ pc = "fetched"
    /\ logs = <<>>
    /\ statistics' = _calculate_statistics(logs, request.hours_back)
    /\ pc' = "analyze"
    /\ UNCHANGED <<log_source, reports, settings, request, service, analysis_id, next_uuid, served, raised, result,
                   http, calls>>
    /\ UNCHANGED <<logs, response, llm_analysis, llm_findings, findings, document_path>>

\* lines 67-69: if not logs: return self._create_empty_response(...)
EmptyShortCircuit ==
    /\ pc = "fetched"
    /\ logs = <<>>
    /\ result' = Return(_create_empty_response(analysis_id, request))
    /\ pc' = "route_return"
    /\ UNCHANGED <<log_source, reports, settings, request, service, analysis_id, next_uuid, served, raised, http,
                   calls>>
    /\ UNCHANGED Locals

\* step 2: statistics = self._calculate_statistics(logs, request.hours_back)
CalculateStatistics ==
    /\ pc = "fetched"
    /\ logs # <<>>
    /\ statistics' = _calculate_statistics(logs, request.hours_back)
    /\ pc' = "analyze"
    /\ UNCHANGED <<log_source, reports, settings, request, service, analysis_id, next_uuid, served, raised, result,
                   http, calls>>
    /\ UNCHANGED <<logs, response, llm_analysis, llm_findings, findings, document_path>>

\* step 3 with one more attempt after a failed invocation
AnalyzeWithLLM_Retry ==
    /\ pc = "analyze"
    /\ \E invocation \in Invocations :
        LET a == LLMService_analyze_logs(invocation)
        IN  /\ response' = invocation.content
            /\ llm_analysis' = a
            /\ IF a.exc = "none"
               THEN pc' = "convert" /\ UNCHANGED raised
               ELSE IF calls.llm = 0
                    THEN pc' = "analyze" /\ UNCHANGED raised
                    ELSE pc' = "route_except" /\ raised' = AnalysisError(analysis_id, a)
    /\ calls' = [calls EXCEPT !.llm = @ + 1,
                              !.prompt = _get_analysis_prompt(
                                             _prepare_log_summary(settings, logs), statistics)]
    /\ UNCHANGED <<log_source, reports, settings, request, service, analysis_id, next_uuid, served, result, http>>
    /\ UNCHANGED <<logs, statistics, llm_findings, findings, document_path>>

\* step 3: llm_analysis = self.llm_service.analyze_logs(logs, statistics)
AnalyzeWithLLM ==
    /\ pc = "analyze"
    /\ \E invocation \in Invocations :
        LET a == LLMService_analyze_logs(invocation)
        IN  /\ response' = invocation.content
            /\ llm_analysis' = a
            /\ IF a.exc = "none"
               THEN pc' = "convert" /\ UNCHANGED raised
               ELSE pc' = "route_except" /\ raised' = AnalysisError(analysis_id, a)
    /\ calls' = [calls EXCEPT !.llm = @ + 1,
                              !.prompt = _get_analysis_prompt(
                                             _prepare_log_summary(settings, logs), statistics)]
    /\ UNCHANGED <<log_source, reports, settings, request, service, analysis_id, next_uuid, served, result, http>>
    /\ UNCHANGED <<logs, statistics, llm_findings, findings, document_path>>

\* step 4: findings = self._convert_findings(llm_analysis.get("findings", []))
ConvertFindings ==
    /\ pc = "convert"
    /\ LET got == Get(llm_analysis.val, K_findings, PyList(<<>>))
           converted == IF got.exc = "none" THEN _convert_findings(got.val) ELSE got
       IN  /\ llm_findings' = got.val
           /\ findings' = converted
           /\ IF converted.exc = "none"
              THEN pc' = "render" /\ UNCHANGED raised
              ELSE pc' = "route_except" /\ raised' = AnalysisError(analysis_id, converted)
    /\ UNCHANGED <<log_source, reports, settings, request, service, analysis_id, next_uuid, served, result, http,
                   calls>>
    /\ UNCHANGED <<logs, statistics, response, llm_analysis, document_path>>

\* step 5: document_path = self.document_service.generate_document(...)
GenerateDocument ==
    /\ pc = "render"
    /\ \E write_ok \in BOOLEAN :
        LET args == RenderArguments(analysis_id, statistics, findings.val, llm_analysis.val,
                                    request.output_format)
            d == generate_document(args, write_ok)
        IN  /\ IF d.exc = "none"
               THEN /\ document_path' = d.val
                    /\ pc' = "respond"
                    /\ UNCHANGED raised
               ELSE /\ raised' = AnalysisError(analysis_id, d)
                    /\ pc' = "route_except"
                    /\ UNCHANGED document_path
            /\ calls' = [calls EXCEPT !.render = @ + 1, !.rendered = args]
            /\ reports' = Append(reports, [name |-> args.analysis_id,
                                           format |-> args.output_format])
    /\ UNCHANGED <<log_source, settings, request, service, analysis_id, next_uuid, served, result,
                   http>>
    /\ UNCHANGED <<logs, statistics, response, llm_analysis, llm_findings, findings>>

\* step 6: response = LogAnalysisResponse(...); return response
CreateResponse ==
    /\ pc = "respond"
    /\ LET r == LogAnalysisResponse(analysis_id, statistics, llm_analysis.val,
                                    findings.val, document_path)
       IN  IF r.exc = "none"
           THEN /\ result' = r
                /\ pc' = "route_return"
                /\ UNCHANGED raised
           ELSE /\ raised' = AnalysisError(analysis_id, r)
                /\ pc' = "route_except"
                /\ UNCHANGED result
    /\ UNCHANGED <<log_source, reports, settings, request, service, analysis_id, next_uuid, served, http, calls>>
    /\ UNCHANGED Locals

\* the except clauses answering by the cause of a LogAnalysisError
HttpError_ByCause(e) ==
    CASE e.exc = "GCPIntegrationError" -> [status |-> 502, code |-> e.code]
      [] e.exc = "LLMError" -> [status |-> 502, code |-> e.code]
      [] e.exc = "LogAnalysisError" /\ e.cause \in {"GCPIntegrationError", "LLMError"} ->
            [status |-> 502, code |-> e.code]
      [] e.exc = "LogAnalysisError" -> [status |-> 500, code |-> e.code]
      [] OTHER -> [status |-> 500, code |-> ""]

\* the except clauses of the route, in their order
HttpError(e) ==
    CASE e.exc = "GCPIntegrationError" -> [status |-> 502, code |-> e.code]
      [] e.exc = "LLMError" -> [status |-> 502, code |-> e.code]
      [] e.exc = "LogAnalysisError" -> [status |-> 500, code |-> e.code]
      [] OTHER -> [status |-> 500, code |-> ""]

\* the route answers: the result, or the HTTPException of the exception caught
RouteReturn ==
    /\ pc = "route_return"
    /\ http' = [status |-> 200, code |-> ""]
    /\ pc' = "idle"
    /\ served' = served + 1
    /\ UNCHANGED <<log_source, reports, settings, request, service, analysis_id, next_uuid, raised, result, calls>>
    /\ UNCHANGED Locals

RouteExcept ==
    /\ pc = "route_except"
    /\ http' = HttpError(raised)
    /\ pc' = "idle"
    /\ served' = served + 1
    /\ UNCHANGED <<log_source, reports, settings, request, service, analysis_id, next_uuid, raised, result, calls>>
    /\ UNCHANGED Locals

Next ==
    \/ ReceiveRequest
    \/ ConstructService
    \/ StartAnalysis
    \/ FetchLogs
    \/ EmptyShortCircuit
    \/ CalculateStatistics
    \/ AnalyzeWithLLM
    \/ ConvertFindings
    \/ GenerateDocument
    \/ CreateResponse
    \/ RouteReturn
    \/ RouteExcept

Spec == Init /\ [][Next]_vars

-----------------------------------------------------------------------------
(* _parse_llm_response and the end of LLMService.analyze_logs, on every text *)

\* the variables the specifications of single operations leave at their initial value
Quiet ==
    /\ settings = [gcp_project_id |-> "proj", gcp_log_filter |-> "", gcp_log_limit |-> 100,
                   llm_provider |-> "openai", openai_api_key |-> "sk-o",
                   anthropic_api_key |-> Unset, max_log_entries_to_analyze |-> 50]
    /\ service = [gcp_client |-> TRUE, llm |-> "openai", built |-> TRUE]
    /\ analysis_id = 1
    /\ next_uuid = 1
    /\ served = 0
    /\ raised = NoException
    /\ result = NoOutcome
    /\ http = NoResponse
    /\ calls = NoCalls
    /\ document_path = NoPath
    /\ log_source = <<>>
    /\ reports = <<>>

InitParse ==
    /\ Quiet
    /\ pc = "parse"
    /\ request = NoRequest
    /\ response \in ResponseTexts
    /\ logs = <<>>
    /\ statistics = NoStatistics
    /\ llm_analysis = NoOutcome
    /\ llm_findings = PyNone
    /\ findings = NoOutcome

\* line 95: analysis_result = self._parse_llm_response(response.content)
ParseResponse ==
    /\ pc = "parse"
    /\ result' = _parse_llm_response(response)
    /\ pc' = "parsed"
    /\ UNCHANGED <<log_source, reports, settings, request, service, analysis_id, next_uuid, served, raised, http,
                   calls>>
    /\ UNCHANGED Locals

\* lines 97-109: return analysis_result, or raise LLMError from the exception
ReturnFromAnalyze ==
    /\ pc = "parsed"
    /\ llm_analysis' = ReturnAnalysis(result)
    /\ pc' = "analyzed"
    /\ UNCHANGED <<log_source, reports, settings, request, service, analysis_id, next_uuid, served, raised, result,
                   http, calls>>
    /\ UNCHANGED <<logs, statistics, response, llm_findings, findings, document_path>>

NextParse == ParseResponse \/ ReturnFromAnalyze

SpecParse == InitParse /\ [][NextParse]_vars

-----------------------------------------------------------------------------------------------------------------------------------------------------------------------------------------------------------------------------
(* The GET /analysis/status/{analysis_id} route *)

\* the path parameter: an identifier a run was given, or one never issued
StatusIds == {1, 2, 9}

\* AnalysisService.get_analysis_status
get_analysis_status(id) ==
    [analysis_id |-> id, status |-> "completed", message |-> "Analysis completed"]

\* lines 140-145 of the route: the AnalysisStatusResponse returned
AnalysisStatusResponse(id) ==
    [status |-> "completed", analysis_id |-> id, message |-> "Analysis completed",
     progress_percentage |-> 100]

InitStatus ==
    /\ settings \in RouteSettings
    /\ pc = "status_idle"
    /\ request = NoRequest
    /\ service = NoService
    /\ analysis_id = 0
    /\ next_uuid = 2
    /\ served = 0
    /\ logs = <<>>
    /\ statistics = NoStatistics
    /\ response = <<>>
    /\ llm_analysis = NoOutcome
    /\ llm_findings = PyNone
    /\ findings = NoOutcome
    /\ document_path = NoPath
    /\ raised = NoException
    /\ result = NoOutcome
    /\ http = NoResponse
    /\ calls = NoCalls
    /\ log_source = <<>>
    /\ reports = <<>>

\* the route is entered with the analysis_id of the path
ReceiveStatusRequest ==
    /\ pc = "status_idle"
    /\ served < MaxRequests
    /\ analysis_id' \in StatusIds
    /\ pc' = "status_construct"
    /\ service' = NoService
    /\ raised' = NoException
    /\ result' = NoOutcome
    /\ http' = NoResponse
    /\ UNCHANGED <<log_source, reports, settings, request, next_uuid, served, calls>>
    /\ UNCHANGED Locals

\* line 137: service = AnalysisService()
StatusConstruct ==
    /\ pc = "status_construct"
    /\ \E gcp_ok \in BOOLEAN, llm_ok \in BOOLEAN, rest_ok \in BOOLEAN :
        LET c == AnalysisService_init(settings, gcp_ok, llm_ok, rest_ok)
        IN  /\ service' = c.service
            /\ IF c.raised.exc = "none"
               THEN pc' = "status_return" /\ UNCHANGED raised
               ELSE pc' = "status_except" /\ raised' = c.raised
    /\ UNCHANGED <<log_source, reports, settings, request, analysis_id, next_uuid, served,
                   result, http, calls>>
    /\ UNCHANGED Locals

\* lines 138-145: status_info = service.get_analysis_status(...); return the response
StatusReturn ==
    /\ pc = "status_return"
    /\ result' = Return(AnalysisStatusResponse(get_analysis_status(analysis_id).analysis_id))
    /\ http' = [status |-> 200, code |-> ""]
    /\ pc' = "status_idle"
    /\ served' = served + 1
    /\ UNCHANGED <<log_source, reports, settings, request, service, analysis_id, next_uuid,
                   raised, calls>>
    /\ UNCHANGED Locals

\* lines 147-155: except Exception: HTTPException(404)
StatusExcept ==
    /\ pc = "status_except"
    /\ http' = [status |-> 404, code |-> ""]
    /\ pc' = "status_idle"
    /\ served' = served + 1
    /\ UNCHANGED <<log_source, reports, settings, request, service, analysis_id, next_uuid,
                   raised, result, calls>>
    /\ UNCHANGED Locals

NextStatus ==
    \/ ReceiveStatusRequest
    \/ StatusConstruct
    \/ StatusReturn
    \/ StatusExcept

SpecStatus == InitStatus /\ [][NextStatus]_vars

-----------------------------------------------------------------------------
(* analyze_logs from the entries fetched to its return, on every entry sequence *)

\* the entries a fetch can have returned
FetchedEntries == {LogEntry(RawError), LogEntry(RawWarning), LogEntry(RawInfo)}
FetchedSequences == UNION {ListsOfLength(FetchedEntries, n) : n \in 0..MaxLogs}

\* deployments that differ in max_log_entries_to_analyze only
PromptSettings ==
    {s \in SettingsSpace :
        /\ s.gcp_project_id = "proj" /\ s.gcp_log_filter = "" /\ s.gcp_log_limit = 100
        /\ s.llm_provider = "openai" /\ s.openai_api_key = "sk-o"
        /\ s.anthropic_api_key = Unset}

InitPrompt ==
    /\ settings \in PromptSettings
    /\ pc = "fetched"
    /\ request \in {[NoRequest EXCEPT !.hours_back = h] : h \in {1, 168}}
    /\ service = [gcp_client |-> TRUE, llm |-> "openai", built |-> TRUE]
    /\ analysis_id = 1
    /\ next_uuid = 1
    /\ served = 0
    /\ logs \in FetchedSequences
    /\ statistics = NoStatistics
    /\ response = <<>>
    /\ llm_analysis = NoOutcome
    /\ llm_findings = PyNone
    /\ findings = NoOutcome
    /\ document_path = NoPath
    /\ raised = NoException
    /\ result = NoOutcome
    /\ http = NoResponse
    /\ calls = [NoCalls EXCEPT !.fetch = 1]
    /\ log_source = <<>>
    /\ reports = <<>>

NextPrompt ==
    \/ EmptyShortCircuit
    \/ CalculateStatistics
    \/ AnalyzeWithLLM
    \/ ConvertFindings
    \/ GenerateDocument
    \/ CreateResponse

SpecPrompt == InitPrompt /\ [][NextPrompt]_vars

-----
(* GCPLoggingClient: construction, then one call of a method on every source *)

\* the settings GCPLoggingClient reads, the others as in Quiet
ClientSettings ==
    {s \in SettingsSpace :
        /\ s.llm_provider = "openai" /\ s.openai_api_key = "sk-o" /\ s.anthropic_api_key = Unset
        /\ s.max_log_entries_to_analyze = 50}

InitFetch ==
    /\ settings \in ClientSettings
    /\ pc = "gcp_new"
    /\ request \in Requests
    /\ log_source \in Sources
    /\ service = NoService
    /\ analysis_id = 1
    /\ next_uuid = 1
    /\ served = 0
    /\ logs = <<>>
    /\ statistics = NoStatistics
    /\ response = <<>>
    /\ llm_analysis = NoOutcome
    /\ llm_findings = PyNone
    /\ findings = NoOutcome
    /\ document_path = NoPath
    /\ raised = NoException
    /\ result = NoOutcome
    /\ http = NoResponse
    /\ calls = NoCalls
    /\ reports = <<>>

\* GCPLoggingClient(): __init__ runs _initialize_client
NewClient ==
    /\ pc = "gcp_new"
    /\ \E client_ok \in BOOLEAN :
        LET c == _initialize_client(settings, client_ok)
        IN  IF c.exc = "none"
            THEN /\ service' = [NoService EXCEPT !.gcp_client = TRUE]
                 /\ pc' = "gcp_ready"
                 /\ UNCHANGED raised
            ELSE /\ raised' = c
                 /\ pc' = "gcp_failed"
                 /\ UNCHANGED service
    /\ UNCHANGED <<log_source, reports, settings, request, analysis_id, next_uuid, served,
                   result, http, calls>>
    /\ UNCHANGED Locals

\* the outcome f of a fetch method called as method
Fetched(method, f) ==
    /\ IF f.exc = "none"
       THEN logs' = f.val /\ UNCHANGED raised
       ELSE raised' = [exc |-> f.exc, code |-> f.code, cause |-> f.cause] /\ UNCHANGED logs
    /\ calls' = [calls EXCEPT !.fetch = @ + 1, !.sent = f.sent]
    /\ pc' = method
    /\ UNCHANGED <<log_source, reports, settings, request, service, analysis_id, next_uuid,
                   served, result, http>>
    /\ UNCHANGED <<statistics, response, llm_analysis, llm_findings, findings, document_path>>

\* client.fetch_logs(filter_query, hours_back, max_results)
CallFetchLogs ==
    /\ pc = "gcp_ready"
    /\ \E source_ok \in BOOLEAN :
        Fetched("fetch_logs", fetch_logs(settings, log_source, source_ok, request.filter_query,
                                         request.hours_back, request.max_logs))

\* client.fetch_error_logs(hours_back, max_results)
CallFetchErrorLogs ==
    /\ pc = "gcp_ready"
    /\ \E source_ok \in BOOLEAN :
        Fetched("fetch_error_logs", fetch_error_logs(settings, log_source, source_ok,
                                                     request.hours_back, request.max_logs))

\* AnalysisService._fetch_logs(request)
CallServiceFetch ==
    /\ pc = "gcp_ready"
    /\ \E source_ok \in BOOLEAN :
        Fetched("_fetch_logs", _fetch_logs(settings, request, log_source, source_ok))

\* client.get_log_statistics(hours_back)
CallGetLogStatistics ==
    /\ pc = "gcp_ready"
    /\ \E source_ok \in BOOLEAN :
        LET g == get_log_statistics(settings, log_source, source_ok, request.hours_back)
        IN  IF g.exc = "none"
            THEN statistics' = g.val /\ UNCHANGED raised
            ELSE raised' = [exc |-> g.exc, code |-> g.code, cause |-> g.cause]
                 /\ UNCHANGED statistics
    /\ pc' = "get_log_statistics"
    /\ UNCHANGED <<log_source, reports, settings, request, service, analysis_id, next_uuid,
                   served, result, http, calls>>
    /\ UNCHANGED <<logs, response, llm_analysis, llm_findings, findings, document_path>>

NextFetch ==
    \/ NewClient
    \/ CallFetchLogs
    \/ CallFetchErrorLogs
    \/ CallServiceFetch
    \/ CallGetLogStatistics

SpecFetch == InitFetch /\ [][NextFetch]_vars

-----
(* Step 4 of analyze_logs on every parsed model result *)

InitConvert ==
    /\ Quiet
    /\ pc = "convert"
    /\ request = NoRequest
    /\ response = <<>>
    /\ logs = <<>>
    /\ statistics = NoStatistics
    /\ \E parsed \in ParsedResults : llm_analysis = Return(parsed)
    /\ llm_findings = PyNone
    /\ findings = NoOutcome

NextConvert == ConvertFindings

SpecConvert == InitConvert /\ [][NextConvert]_vars

-----------------------------------------------------------------------------
(* _calculate_statistics on every entry sequence *)

InitStatistics ==
    /\ Quiet
    /\ pc = "statistics"
    /\ request \in {[NoRequest EXCEPT !.hours_back = h] : h \in {1, 24, 168}}
    /\ response = <<>>
    /\ logs \in EntrySequences
    /\ statistics = NoStatistics
    /\ llm_analysis = NoOutcome
    /\ llm_findings = PyNone
    /\ findings = NoOutcome

ApplyStatistics ==
    /\ pc = "statistics"
    /\ statistics' = _calculate_statistics(logs, request.hours_back)
    /\ pc' = "calculated"
    /\ UNCHANGED <<log_source, reports, settings, request, service, analysis_id, next_uuid, served, raised, result,
                   http, calls>>
    /\ UNCHANGED <<logs, response, llm_analysis, llm_findings, findings, document_path>>

NextStatistics == ApplyStatistics

SpecStatistics == InitStatistics /\ [][NextStatistics]_vars

-----------------------------------------------------------------------------
(* Properties of analyze_logs and of the route (Spec) *)

\* the steps of analyze_logs inside its try block, and what each can raise
AnalyzeSteps == {"fetch", "fetched", "analyze", "convert", "render", "respond"}
StepExceptions(step) ==
    CASE step = "fetch" -> {"GCPIntegrationError"}
      [] step = "analyze" -> {"LLMError"}
      [] step = "convert" -> {"TypeError", "AttributeError"}
      [] step = "render" -> {"RenderFailed"}
      [] step = "respond" -> {"ValidationError"}
      [] OTHER -> {}

\* C1: whenever a step of analyze_logs (fetch, statistics, model analysis, finding
\* conversion, document generation, response assembly) fails, the exception that leaves
\* analyze_logs is LogAnalysisError with code ANALYSIS_ERROR, its context holds the
\* analysis_id minted at the start of that run and its cause is the exception of the
\* step; GCPIntegrationError and LLMError never leave analyze_logs.
C1_FailureIsWrapped ==
    [][(pc \in AnalyzeSteps /\ pc' = "route_except") =>
          /\ analysis_id = next_uuid
          /\ \E c \in StepExceptions(pc) :
                raised' = [exc |-> "LogAnalysisError", code |-> "ANALYSIS_ERROR",
                           analysis_id |-> analysis_id, cause |-> c]]_vars

\* a run whose model step failed has left analyze_logs with the wrapped exception
C1_Witness ==
    /\ pc = "route_except"
    /\ calls.llm = 1
    /\ llm_analysis.exc = "LLMError"
    /\ raised = [exc |-> "LogAnalysisError", code |-> "ANALYSIS_ERROR",
                 analysis_id |-> analysis_id, cause |-> "LLMError"]

\* C2: when the fetch step returns zero entries, analyze_logs returns the fixed empty
\* result (total_logs 0, by_severity empty, no findings, no document path, the fixed
\* summary and exactly one fixed recommendation), and neither the model nor the
\* document service is called in that run.
C2_EmptyShortCircuit ==
    /\ (pc \in {"analyze", "convert", "render", "respond"} => logs # <<>>)
    /\ (pc = "route_return" /\ logs = <<>> =>
          /\ result.exc = "none"
          /\ result.val.analysis_id = analysis_id
          /\ result.val.statistics.total_logs = 0
          /\ result.val.statistics.by_severity.keys = <<>>
          /\ result.val.statistics.most_common_errors = <<>>
          /\ result.val.findings = <<>>
          /\ result.val.document_path = NoPath
          /\ result.val.summary = T_NoLogsFound
          /\ result.val.recommendations = <<T_CheckConfig>>
          /\ calls.llm = 0
          /\ calls.render = 0)

\* analyze_logs has returned for a run whose fetch returned zero entries
C2_Witness == pc = "route_return" /\ logs = <<>> /\ calls.fetch = 1 /\ result.exc = "none"

\* C9 as claimed: every failure of the log source or of the model provider, the
\* construction of their clients included, reaches the caller as LogAnalysisError and
\* never as GCPIntegrationError or LLMError.
C9_OnlyAnalysisFailed ==
    pc = "route_except" /\ raised.exc # "OSError" => raised.exc = "LogAnalysisError"

\* C9 as amended: a failure that happens while analyze_logs runs reaches the caller as
\* LogAnalysisError; a failure to construct the log-source client reaches the caller as
\* GCPIntegrationError and a failure to construct the model client as LLMError.
C9_FailureByPhase ==
    pc = "route_except" =>
        /\ (service.built <=> raised.exc = "LogAnalysisError")
        /\ (~service.gcp_client => raised.exc = "GCPIntegrationError")
        /\ (service.gcp_client /\ service.llm = "none" => raised.exc = "LLMError")

\* the construction of the model client failed and LLMError reached the route
C9_Witness ==
    /\ pc = "route_except"
    /\ service.gcp_client
    /\ ~service.built
    /\ raised.exc = "LLMError"

\* C10: when the key of the selected provider is absent, the construction of LLMService
\* fails with LLMError and the model provider is never called in that request.
C10_NoKeyNoCall ==
    SelectedKeyAbsent(settings) =>
        /\ service.llm = "none"
        /\ calls.llm = 0
        /\ pc \notin AnalyzeSteps
        /\ (pc = "route_except" /\ service.gcp_client =>
              raised.exc = "LLMError" /\ raised.code = "LLM_INIT_ERROR")

\* the log-source client was built, the key is absent, and the construction has failed
C10_Witness ==
    /\ SelectedKeyAbsent(settings)
    /\ pc = "route_except"
    /\ service.gcp_client
    /\ raised.exc = "LLMError"

-----------------------------------------------------------------------------
(* Properties of _parse_llm_response (SpecParse) *)

\* the findings of a parsed result, where it has a list of them
FindingsOf(out) ==
    IF /\ out.exc = "none"
       /\ out.val.t = "dict"
       /\ K_findings \in DOMAIN out.val.m
       /\ out.val.m[K_findings].t = "list"
    THEN out.val.m[K_findings].items
    ELSE <<>>

\* out is a result with exactly one finding: severity info, no affected logs, and
\* this description
IsFallback(out, description) ==
    /\ out.exc = "none"
    /\ Len(FindingsOf(out)) = 1
    /\ LET f == FindingsOf(out)[1]
       IN  /\ f.t = "dict"
           /\ DictGet(f, K_severity, PyNone) = PyStr(T_info)
           /\ DictGet(f, K_affected_logs_count, PyNone) = PyInt(0)
           /\ DictGet(f, K_description, PyNone) = PyStr(description)

\* C3: for every response whose text is not parsed as JSON, _parse_llm_response does not
\* raise and returns exactly one finding with severity "info", affected_logs_count 0 and
\* a description equal to the first 1000 characters of the response as received, before
\* trimming and fence stripping.
C3_RawDescription ==
    pc = "parsed" /\ ~json_loads(StripFences(response)).ok =>
        IsFallback(result, SliceTo(response, DescriptionLimit))

\* C4: for every text the model can return, valid JSON that is no object included,
\* LLMService.analyze_logs returns a result with the keys summary, findings,
\* recommendations and most_common_errors and raises no LLMError.
C4_ParseNeverFails ==
    pc = "analyzed" =>
        /\ llm_analysis.exc = "none"
        /\ llm_analysis.val.t = "dict"
        /\ {K_summary, K_findings, K_recommendations, K_most_common_errors}
              \subseteq DOMAIN llm_analysis.val.m

\* the language tags of the opening fence
LanguageTags == {Tag_json, Tag_js}

\* response is J in a fenced code block whose opening fence has this tag
IsFenced(J, tag) ==
    \E lead \in OuterPads, inner \in InnerPads, trail \in OuterPads :
        response = Wrap(J, lead, Fence \o tag, inner, Fence, trail)

-----------------------------------------------------------------------------
(* Properties of finding materialization (SpecConvert) *)

\* a raw finding that is an object with every field of the schema well formed
WellFormed(f) ==
    /\ f.t = "dict"
    /\ K_severity \in DOMAIN f.m
    /\ ValidFindingArguments(FindingArguments(f))

\* a raw finding that is an object without the key severity, its other fields valid
LacksSeverity(f) ==
    /\ f.t = "dict"
    /\ K_severity \notin DOMAIN f.m
    /\ ValidOtherFields(FindingArguments(f))

\* a raw finding that is an object whose severity is none of the five values
HasBadSeverity(f) ==
    /\ f.t = "dict"
    /\ K_severity \in DOMAIN f.m
    /\ ~(f.m[K_severity].t = "str" /\ f.m[K_severity].s \in FindingSeverities)

\* llm_findings is a list of two raw findings, the one at i well formed
TwoWithValidAt(i) ==
    /\ pc = "render"
    /\ llm_findings.t = "list"
    /\ Len(llm_findings.items) = 2
    /\ WellFormed(llm_findings.items[i])

RECURSIVE CountConvertible(_)
CountConvertible(elems) ==
    IF elems = <<>> THEN 0
    ELSE (IF Convertible(Head(elems)) THEN 1 ELSE 0) + CountConvertible(Tail(elems))

\* C6: whatever is stored under "findings", step 4 completes without aborting the run:
\* the raw findings that cannot be built are skipped and the others are materialized.
C6_NeverAborts ==
    pc # "convert" =>
        /\ pc = "render"
        /\ findings.exc = "none"
        /\ (llm_findings.t = "list" =>
              Len(findings.val) = CountConvertible(llm_findings.items))

-----------------------------------------------------------------------------
(* Properties of _calculate_statistics (SpecStatistics) *)

RECURSIVE SumCounts(_, _)
SumCounts(keys, count) ==
    IF keys = <<>> THEN 0 ELSE count[Head(keys)] + SumCounts(Tail(keys), count)

\* C8: for every entry sequence, total_count is the number of entries, the counts of
\* by_severity sum to total_count, and time_range_hours is the hours_back given.
C8_StatisticsTotals ==
    pc = "calculated" =>
        /\ statistics.total_count = Len(logs)
        /\ SumCounts(statistics.by_severity.keys, statistics.by_severity.count)
              = statistics.total_count
        /\ statistics.time_range_hours = request.hours_back

\* three entries of two severities have been tallied
C8_Witness ==
    /\ pc = "calculated"
    /\ Len(logs) = 3
    /\ Len(statistics.by_severity.keys) = 2
    /\ statistics.total_count = 3

-----------------------------------------------------------------------------
(* GCPLoggingClient *)

\* C11: constructing GCPLoggingClient when no project id is configured raises
\* GCPIntegrationError whose code is GCP_PROJECT_ID_MISSING
C11_ProjectIdMissingCode ==
    (pc = "gcp_failed" /\ Falsy(settings.gcp_project_id))
        => (raised.exc = "GCPIntegrationError" /\ raised.code = "GCP_PROJECT_ID_MISSING")

\* the query of the error fetch for a time window: the timestamp bound and the fixed filter
ErrorQuery(hours_back) == <<_build_timestamp_filter(hours_back), Conjunct(ErrorFilter)>>

\* a call of fetch_error_logs, directly or by _fetch_logs for a request focused on errors
ErrorFetchCalled ==
    \/ pc = "fetch_error_logs"
    \/ pc = "_fetch_logs" /\ request.focus_on_errors

\* C12: fetch_error_logs sends the log source the timestamp bound ANDed with the fixed
\* filter severity >= "WARNING" and nothing else, whatever the filter_query of the request
\* and the configured default filter are
C12_ErrorQueryIsFixed ==
    ErrorFetchCalled => calls.sent.filter_ = ErrorQuery(request.hours_back)

C12_Witness ==
    /\ pc = "_fetch_logs"
    /\ request.focus_on_errors
    /\ request.filter_query = "f"
    /\ settings.gcp_log_filter = "g"
    /\ calls.fetch = 1
    /\ calls.sent.filter_ = ErrorQuery(request.hours_back)

\* the entries fetch_logs returns for the same window and source when no filter is given
FetchedWithNoFilter ==
    fetch_logs(settings, log_source, TRUE, Unset, request.hours_back, request.max_logs).val

\* C13: the entries fetch_error_logs returns are among the entries fetch_logs returns with no
\* filter for the same window and source, and each has a severity at or above WARNING
C13_ErrorLogsSubset ==
    (pc = "fetch_error_logs" /\ raised = NoException)
        => /\ \A i \in 1..Len(logs) :
                \E j \in 1..Len(FetchedWithNoFilter) : FetchedWithNoFilter[j] = logs[i]
           /\ \A i \in 1..Len(logs) :
                SeverityRank(logs[i].severity) >= SeverityRank("WARNING")

\* C14: fetch_logs returns at most max_results entries, or at most gcp_log_limit entries
\* when max_results is not given
C14_AtMostMaxResults ==
    (pc \in {"fetch_logs", "fetch_error_logs", "_fetch_logs"} /\ raised = NoException)
        => Len(logs) <= page_size(settings, request.max_logs)

-----------------------------------------------------------------------------
(* The report document *)

RunOn(text) ==
    LET a == _parse_llm_response(text)
        got == IF a.exc = "none" THEN Get(a.val, K_findings, PyList(<<>>)) ELSE a
        conv == IF got.exc = "none" THEN _convert_findings(got.val) ELSE got
    IN  IF conv.exc # "none" THEN [ok |-> FALSE]
        ELSE [ok |-> TRUE,
              args |-> RenderArguments(analysis_id, statistics, conv.val, a.val,
                                       request.output_format),
              response |-> LogAnalysisResponse(analysis_id, statistics, a.val, conv.val,
                                               document_path)]

\* C16: the result returned can be recovered from the data handed to the renderer of the
\* JSON document: a run that hands the renderer the same data returns the same result,
\* most_common_errors included
C16_LosslessReport ==
    (pc = "route_return" /\ logs # <<>> /\ request.output_format = "json")
        => \A text \in PipelineTexts :
              (RunOn(text).ok /\ RunOn(text).args = calls.rendered)
                  => RunOn(text).response = result

-----------------------------------------------------------------------------
(* The status route *)

\* C17: for any analysis_id, the status route answers 200 with status "completed" and
\* that analysis_id, whatever the configuration of the log source and the model provider
C17_StatusAlwaysCompleted ==
    (pc = "status_idle" /\ served > 0)
        => /\ http.status = 200
           /\ result.exc = "none"
           /\ result.val.status = "completed"
           /\ result.val.analysis_id = analysis_id

-----------------------------------------------------------------------------
(* Analysis identifiers and report targets *)

-----------------------------------------------------------------------------
(* The affected-entry count of a materialized finding *)

\* C19: every finding materialized by step 4 has an affected_logs_count >= 0; a raw
\* finding with a negative count is never materialized with that count
C19_CountNeverNegative ==
    (pc # "convert" /\ findings.exc = "none") =>
        \A i \in 1..Len(findings.val) : findings.val[i].affected_logs_count >= 0

-----------------------------------------------------------------------------
(* Entries of the log source without a severity *)

\* the fetched entries whose entry of the log source carries no severity
AbsentSeverityFetched ==
    {i \in 1..Len(logs) :
        \E j \in 1..Len(log_source) :
            /\ log_source[j].insert_id = logs[i].insert_id
            /\ log_source[j].severity = NoneKey}

\* C20: an entry whose severity is absent in the log source is counted under "UNKNOWN"
\* once fetch_logs has normalized it and _calculate_statistics has tallied it
C20_AbsentSeverityIsUnknown ==
    (pc = "analyze" /\ AbsentSeverityFetched # {}) =>
        /\ "UNKNOWN" \in DOMAIN statistics.by_severity.count
        /\ statistics.by_severity.count["UNKNOWN"] = Cardinality(AbsentSeverityFetched)

-----------------------------------------------------------------------------
(* The order of the external steps of a run *)

\* what holds of the calls made so far in the run
StepsInOrder ==
    /\ calls.fetch <= 1
    /\ calls.llm <= 1
    /\ calls.render <= 1
    /\ calls.llm = 1 => (calls.fetch = 1 /\ logs # <<>>)
    /\ calls.render = 1 => (calls.llm = 1 /\ llm_analysis.exc = "none")

\* a step of a run in which an exception has been raised
AfterFailure ==
    (raised.exc # "none" /\ pc # "idle") =>
        (calls' = calls /\ pc' = "idle" /\ http'.status >= 500)

\* C21: in every run the external steps happen in the order fetch, model invocation,
\* rendering, each at most once; the model is invoked only after a non-empty fetch, the
\* renderer only after the model step returned, and once a step has failed no later
\* step is made and the run ends in failure
C21_StepsInOrderNoRetry == [](StepsInOrder) /\ [][AfterFailure]_vars

C21_Witness ==
    /\ pc = "idle"
    /\ http.status = 200
    /\ calls.fetch = 1
    /\ calls.llm = 1
    /\ calls.render = 1

-----------------------------------------------------------------------------
(* The order of the findings materialized by _convert_findings *)

\* the finding is the one built from this raw finding
BuiltFrom(finding, raw) ==
    /\ raw.t = "dict"
    /\ ValidFindingArguments(FindingArguments(raw))
    /\ finding = AnalysisFinding(FindingArguments(raw))

\* built is made of findings built from elements of raws at increasing positions
IsSubsequenceOfRaw(built, raws) ==
    \E at \in [1..Len(built) -> 1..Len(raws)] :
        /\ \A k \in 1..Len(built) : BuiltFrom(built[k], raws[at[k]])
        /\ \A k, l \in 1..Len(built) : k < l => at[k] < at[l]

\* C22: the findings returned by _convert_findings are a subsequence of the raw findings
\* in the order of the model's output: nothing is reordered, duplicated or added
C22_FindingsKeepOrder ==
    (pc = "render" /\ llm_findings.t = "list") =>
        /\ Len(findings.val) <= Len(llm_findings.items)
        /\ IsSubsequenceOfRaw(findings.val, llm_findings.items)

\* two different raw findings have both been materialized
C22_Witness ==
    /\ pc = "render"
    /\ llm_findings.t = "list"
    /\ Len(llm_findings.items) = 2
    /\ Len(findings.val) = 2
    /\ findings.val[1] # findings.val[2]

-----------------------------------------------------------------------------
(* The keys of a parsed JSON object *)

RequiredKeys == {K_summary, K_findings, K_recommendations, K_most_common_errors}

DefaultOf(key) == IF key = K_summary THEN PyStr(T_AnalysisCompleted) ELSE PyList(<<>>)

\* the object the response is the JSON text of, once the fences are stripped
ParsedObject == json_loads(StripFences(response))

\* C23: when the response parses as a JSON object, each of the four top-level keys that
\* is missing is set to its default, and every key that is present, the other keys of
\* the object included, is returned with the value it had
C23_BackfillOnly ==
    (pc = "parsed" /\ ParsedObject.ok /\ ParsedObject.v.t = "dict") =>
        /\ result.exc = "none"
        /\ result.val.t = "dict"
        /\ DOMAIN result.val.m = DOMAIN ParsedObject.v.m \cup RequiredKeys
        /\ \A k \in DOMAIN ParsedObject.v.m : result.val.m[k] = ParsedObject.v.m[k]
        /\ \A k \in RequiredKeys \ DOMAIN ParsedObject.v.m : result.val.m[k] = DefaultOf(k)

\* an object with a required key of its own, another key, and required keys missing
C23_Witness ==
    /\ pc = "parsed"
    /\ ParsedObject.ok
    /\ ParsedObject.v.t = "dict"
    /\ DOMAIN ParsedObject.v.m \cap RequiredKeys # {}
    /\ DOMAIN ParsedObject.v.m \ RequiredKeys # {}
    /\ RequiredKeys \ DOMAIN ParsedObject.v.m # {}
    /\ result.exc = "none"

-----------------------------------------------------------------------------
(* The keys of the severity tally *)

\* the positions of the entries tallied with this severity
PositionsOf(severity) == {i \in 1..Len(logs) : SeverityOf(logs[i]) = severity}

\* the first position of a severity that occurs
FirstOf(severity) ==
    CHOOSE i \in PositionsOf(severity) : \A j \in PositionsOf(severity) : i <= j

\* the entries have the severities ERROR, error, ERROR
ErrorInTwoCases ==
    /\ Len(logs) = 3
    /\ \A i \in 1..3 : "severity" \in DOMAIN logs[i]
    /\ <<logs[1].severity, logs[2].severity, logs[3].severity>> = <<"ERROR", "error", "ERROR">>

\* C24: the tally uses the severity string as received, with no case normalization, and
\* its keys are exactly the severities observed, in order of first occurrence; the
\* severities ERROR, error, ERROR give ERROR: 2 and error: 1
C24_TallyCaseSensitiveInOrder ==
    pc = "calculated" =>
        LET keys == statistics.by_severity.keys
            count == statistics.by_severity.count
        IN  /\ {keys[k] : k \in 1..Len(keys)} = {SeverityOf(logs[i]) : i \in 1..Len(logs)}
            /\ DOMAIN count = {keys[k] : k \in 1..Len(keys)}
            /\ \A k, l \in 1..Len(keys) :
                   k < l => (keys[k] # keys[l] /\ FirstOf(keys[k]) < FirstOf(keys[l]))
            /\ \A k \in 1..Len(keys) : count[keys[k]] = Cardinality(PositionsOf(keys[k]))
            /\ ErrorInTwoCases =>
                   (keys = <<"ERROR", "error">> /\ count["ERROR"] = 2 /\ count["error"] = 1)

C24_Witness ==
    /\ pc = "calculated"
    /\ ErrorInTwoCases
    /\ statistics.by_severity.keys = <<"ERROR", "error">>

-----------------------------------------------------------------------------
(* The filter fetch_logs sends *)

\* the conjuncts after the timestamp bound in the filter sent
SentAfterTimestamp == Tail(calls.sent.filter_)

\* C25: the filter fetch_logs sends is always the timestamp lower bound, ANDed with the
\* request filter when one is supplied, otherwise with the configured default filter
\* when one is configured, otherwise alone; with both present only the request filter
\* is in the query
C25_RequestFilterWins ==
    pc = "fetch_logs" =>
        /\ calls.sent.filter_ # <<>>
        /\ Head(calls.sent.filter_) = _build_timestamp_filter(request.hours_back)
        /\ request.filter_query # Unset =>
               SentAfterTimestamp = <<Conjunct(request.filter_query)>>
        /\ (request.filter_query = Unset /\ settings.gcp_log_filter # "") =>
               SentAfterTimestamp = <<Conjunct(settings.gcp_log_filter)>>
        /\ (request.filter_query = Unset /\ settings.gcp_log_filter = "") =>
               SentAfterTimestamp = <<>>

\* fetch_logs called with a request filter while a default filter is configured
C25_Witness ==
    /\ pc = "fetch_logs"
    /\ request.filter_query = "f"
    /\ settings.gcp_log_filter = "g"
    /\ calls.fetch = 1
    /\ SentAfterTimestamp = <<Conjunct("f")>>

-----------------------------------------------------------------------------
(* The payload fields of a normalized entry *)

\* a call of fetch_logs, direct or through another method, has returned entries
FetchReturned ==
    /\ pc \in {"fetch_logs", "fetch_error_logs", "_fetch_logs"}
    /\ raised = NoException

\* C26: every normalized entry fetch_logs produces has exactly one of text_payload and
\* json_payload set, whatever the type of the raw payload
C26_ExactlyOnePayload ==
    FetchReturned =>
        \A i \in 1..Len(logs) : (logs[i].text_payload = Unset) # (logs[i].json_payload = Unset)

-----------------------------------------------------------------------------
(* The status of a failed POST /analysis/ request *)

\* the route has answered a request with an error
AnsweredWithError == pc = "idle" /\ http.status >= 400

\* C27: through the POST route every failure that happens while analyze_logs runs gives
\* HTTP 500 with code ANALYSIS_ERROR; a 502 is answered only when constructing
\* AnalysisService failed
C27_RunFailureIs500 ==
    AnsweredWithError =>
        /\ service.built => http = [status |-> 500, code |-> "ANALYSIS_ERROR"]
        /\ http.status = 502 => ~service.built

\* the log fetch of a run failed and the route answered 500
C27_Witness ==
    /\ AnsweredWithError
    /\ service.built
    /\ calls.fetch = 1
    /\ raised.exc = "LogAnalysisError"
    /\ raised.cause = "GCPIntegrationError"
    /\ http = [status |-> 500, code |-> "ANALYSIS_ERROR"]

-----------------------------------------------------------------------------
(* The clients are constructed before the fetch *)

\* C28: the log-source client and the model client are both constructed before any
\* fetch is made, so a request whose model provider key is missing fails before
\* fetching, whatever the fetch would have returned
C28_ClientsBeforeFetch ==
    /\ calls.fetch > 0 => (service.gcp_client /\ service.llm # "none" /\ service.built)
    /\ SelectedKeyAbsent(settings) =>
          /\ calls.fetch = 0
          /\ http.status # 200
          /\ (pc = "idle" /\ served > 0) => http.status >= 500

\* a request with the key of the selected provider missing was answered with the
\* failure of the model client, the log-source client built and no fetch made
C28_Witness ==
    /\ pc = "idle"
    /\ served > 0
    /\ SelectedKeyAbsent(settings)
    /\ service.gcp_client
    /\ raised.exc = "LLMError"
    /\ http.status = 502
    /\ calls.fetch = 0

-----------------------------------------------------------------------------
(* The entries in the prompt and the totals reported *)

\* the number of entries written into the prompt of the run
PromptEntries == Len(calls.prompt.logs)

\* C29: the prompt holds only the first max_log_entries_to_analyze fetched entries, in
\* their order, while the statistics in the prompt and the total_logs of the result
\* count all fetched entries; the number of entries in the prompt is the smaller of the
\* fetched count and the configured maximum and never more than the reported total
C29_PromptTruncatedTotalsFull ==
    calls.llm = 1 =>
        /\ PromptEntries = Min(Len(logs), settings.max_log_entries_to_analyze)
        /\ \A i \in 1..PromptEntries : calls.prompt.logs[i] = LogText(i, logs[i])
        /\ calls.prompt.total_count = Len(logs)
        /\ PromptEntries <= calls.prompt.total_count
        /\ (pc = "route_return" /\ result.exc = "none") =>
               /\ result.val.statistics.total_logs = Len(logs)
               /\ PromptEntries <= result.val.statistics.total_logs

\* a run on three entries with a maximum of two has returned its result
C29_Witness ==
    /\ pc = "route_return"
    /\ result.exc = "none"
    /\ Len(logs) = 3
    /\ settings.max_log_entries_to_analyze = 2
    /\ PromptEntries = 2
    /\ result.val.statistics.total_logs = 3

-----------------------------------------------------------------------------
(* The provider selected at the construction of LLMService *)

\* the construction of LLMService has raised
LLMConstructionFailed ==
    /\ pc = "route_except"
    /\ service.gcp_client
    /\ ~service.built
    /\ raised.exc = "LLMError"

\* C30: the provider is resolved once, when LLMService is constructed: "anthropic"
\* selects the Anthropic provider and needs the Anthropic key only; every other value,
\* unknown ones included, selects the OpenAI provider and needs the OpenAI key only,
\* and is not rejected
C30_ProviderByFallback ==
    /\ [](service.llm # "none" =>
            IF settings.llm_provider = "anthropic"
            THEN service.llm = "anthropic" /\ settings.anthropic_api_key \notin {Unset, ""}
            ELSE service.llm = "openai" /\ settings.openai_api_key \notin {Unset, ""})
    /\ [](LLMConstructionFailed =>
            \/ raised.cause = "ClientError"
            \/ /\ settings.llm_provider = "anthropic"
               /\ settings.anthropic_api_key \in {Unset, ""}
               /\ raised.cause = "LLMError:ANTHROPIC_API_KEY_MISSING"
            \/ /\ settings.llm_provider # "anthropic"
               /\ settings.openai_api_key \in {Unset, ""}
               /\ raised.cause = "LLMError:OPENAI_API_KEY_MISSING")
    /\ [][(pc \in AnalyzeSteps) => (service' = service)]_vars

\* a service constructed for an unknown provider, with the OpenAI key only
C30_Witness ==
    /\ settings.llm_provider = "azure"
    /\ settings.anthropic_api_key = Unset
    /\ service.built
    /\ service.llm = "openai"
    /\ calls.llm = 1

====
